---- MODULE Spec2Model ----
(***************************************************************************)
(* A model of the AuroraAI orchestration module: withRetry, the response   *)
(* cache, and the generateImage / editImage waterfalls of the current      *)
(* service module, together with the earlier services/gemini.ts version    *)
(* of withRetry and generateImage.                                         *)
(*                                                                         *)
(* Execution is single-threaded and cooperative: a call runs atomically    *)
(* from one suspension point to the next.  The suspension points are the   *)
(* awaited backend requests (pc = "call") and the backoff sleeps           *)
(* (pc = "sleep").                                                         *)
(***************************************************************************)
EXTENDS Integers, Sequences, FiniteSets, TLC

(***************************************************************************)
(* Bounds of the model.                                                    *)
(***************************************************************************)
\* the largest number of parts in one backend response
MaxParts == 1

(***************************************************************************)
(* JavaScript strings that are searched with includes().  A string is a    *)
(* sequence of fragments; a needle never spans two fragments.  Occurs      *)
(* lists, for a lower-cased fragment, the needles of the source that occur *)
(* in it.                                                                  *)
(***************************************************************************)
toLowerCaseFragment(f) ==
  CASE f = "Error: " -> "error: "
    [] f = "400 INVALID_ARGUMENT" -> "400 invalid_argument"
    [] f = "403 PERMISSION_DENIED" -> "403 permission_denied"
    [] f = "429 RESOURCE_EXHAUSTED" -> "429 resource_exhausted"
    [] f = "Quota exceeded" -> "quota exceeded"
    [] f = "Too Many Requests" -> "too many requests"
    [] f = "503 UNAVAILABLE" -> "503 unavailable"
    [] f = "The model is overloaded" -> "the model is overloaded"
    [] f = "All AI models are currently busy or out of quota. Please try again in 1 minute."
         -> "all ai models are currently busy or out of quota. please try again in 1 minute."
    [] OTHER -> f

toLowerCase(s) == [i \in DOMAIN s |-> toLowerCaseFragment(s[i])]

Occurs(f) ==
  CASE f = "400 invalid_argument" -> {"400", "invalid_argument"}
    [] f = "403 permission_denied" -> {"403", "permission_denied", "permission"}
    [] f = "429 resource_exhausted" -> {"429"}
    [] f = "quota exceeded" -> {"quota"}
    [] f = "too many requests" -> {"too many requests"}
    [] f = "503 unavailable" -> {"503", "unavailable"}
    [] f = "the model is overloaded" -> {"overloaded"}
    [] f = "all ai models are currently busy or out of quota. please try again in 1 minute."
         -> {"quota"}
    [] OTHER -> {}

includes(s, needle) == \E i \in DOMAIN s : needle \in Occurs(s[i])

(***************************************************************************)
(* Error objects: new Error(message).  toString() is "Error: " + message.  *)
(***************************************************************************)
Error(message) == [message |-> message]

toString(error) == <<"Error: ">> \o error.message

\* the errors the remote backend answers with
BackendErrors ==
  { Error(<<"400 INVALID_ARGUMENT">>),
    Error(<<"403 PERMISSION_DENIED">>),
    Error(<<"429 RESOURCE_EXHAUSTED">>),
    Error(<<"Too Many Requests">>),
    Error(<<"503 UNAVAILABLE">>),
    Error(<<"fetch failed">>) }

(***************************************************************************)
(* withRetry of the current service module.                                *)
(***************************************************************************)
DefaultRetries == 5
DefaultDelay == 4000

errStr(error) == toLowerCase(toString(error))
errMsg(error) == toLowerCase(error.message)

isQuota(error) ==
  \/ includes(errStr(error), "429")
  \/ includes(errMsg(error), "resource exhausted")
  \/ includes(errMsg(error), "quota")
  \/ includes(errMsg(error), "too many requests")

\* a server-issue test that also matches the permission code
isServerIssue_Permission(error) ==
  \/ includes(errStr(error), "503")
  \/ includes(errStr(error), "403")
  \/ includes(errMsg(error), "unavailable")
  \/ includes(errMsg(error), "overloaded")

isServerIssue(error) ==
  \/ includes(errStr(error), "503")
  \/ includes(errMsg(error), "unavailable")
  \/ includes(errMsg(error), "overloaded")

\* a backoff that grows by a fixed step instead of a factor
NextDelay_FixedStep(d) == d + (DefaultDelay \div 2)

\* delay * 1.5, exact on every delay the default policy reaches
NextDelay(d) == (d * 3) \div 2

\* a retry branch that also retries when no attempt is left
ShouldRetry_OffByOne(error, r) == (isQuota(error) \/ isServerIssue(error)) /\ r >= 0

\* the condition of the retry branch in the catch block
ShouldRetry(error, r) == (isQuota(error) \/ isServerIssue(error)) /\ r > 0

(***************************************************************************)
(* withRetry of services/gemini.ts (the earlier version).                  *)
(***************************************************************************)
isQuotaV1(error) ==
  \/ includes(errStr(error), "429")
  \/ includes(errMsg(error), "resource exhausted")
  \/ includes(errMsg(error), "quota")

NextDelayV1(d) == d * 2

ShouldRetryV1(error, r) == (isQuotaV1(error) \/ isServerIssue(error)) /\ r > 0

(***************************************************************************)
(* The remote backend.  A generateContent response carries a list of       *)
(* parts (or no candidate at all); a part is text or inline image data.    *)
(* A generateImages response carries a list of generated images.  What the *)
(* backend generates is fresh for every request: the data records the      *)
(* model that produced it and the caller whose request it answers.         *)
(***************************************************************************)
TextPart(model, c) == [kind |-> "text", data |-> <<model, c>>]
InlinePart(model, c) == [kind |-> "inlineData", data |-> <<model, c>>]
\* a part whose inlineData.data is the empty string
EmptyInlinePart == [kind |-> "inlineData", data |-> <<>>]

Parts(model, c) == {TextPart(model, c), EmptyInlinePart, InlinePart(model, c)}

SeqsUpTo(S, n) == UNION {[1..k -> S] : k \in 0..n}

NoCandidates == [candidates |-> FALSE, parts |-> <<>>]

GenerateContentResponses(model, c) ==
  {NoCandidates} \cup
  {[candidates |-> TRUE, parts |-> ps] : ps \in SeqsUpTo(Parts(model, c), MaxParts)}

GenerateImagesResponses(model, c) ==
  {[generatedImages |-> gs] : gs \in SeqsUpTo({[imageBytes |-> <<model, c>>]}, MaxParts)}

\* the stream chat.sendMessageStream resolves to
\* an async iterable opened by the model for the caller
ChatStreams(model, c) == {[asyncIterator |-> TRUE, source |-> <<model, c>>]}

\* what the awaited operation of caller c can resolve to
Responses(c, payload) ==
  CASE payload.api = "generateContent" -> GenerateContentResponses(payload.model, c)
    [] payload.api = "generateImages" -> GenerateImagesResponses(payload.model, c)
    [] payload.api = "sendMessageStream" -> ChatStreams(payload.model, c)
    [] OTHER -> {[value |-> "resolved"]}

DataUrl(mime, data) == [mime |-> mime, data |-> data]

\* a test that accepts an inline part without data
isImagePart_AnyInline(part) == part.kind = "inlineData"

isImagePart(part) == part.kind = "inlineData" /\ part.data # <<>>

\* the loop that pushes `data:image/png;base64,${part.inlineData.data}`
ExtractImages(response) ==
  IF response.candidates
    THEN LET kept == SelectSeq(response.parts, isImagePart)
         IN  [i \in DOMAIN kept |-> DataUrl("image/png", kept[i].data)]
    ELSE <<>>

\* generatedImages.map(img => `data:image/jpeg;base64,${img.image.imageBytes}`)
ImagenImages(response) ==
  [i \in DOMAIN response.generatedImages |->
      DataUrl("image/jpeg", response.generatedImages[i].imageBytes)]

(***************************************************************************)
(* Requests of generateImage and the cache key.                            *)
(***************************************************************************)
Prompts == {"cat"}
AspectRatios == {"1:1"}
Resolutions == {"2K", "8K"}

GenerateRequests ==
  [prompt : Prompts, aspectRatio : AspectRatios, resolution : Resolutions,
   useProModel : BOOLEAN]

\* the requests of the specifications in which calls overlap
ConcurrentRequests == {request \in GenerateRequests : request.resolution = "2K"}

BoolString(b) == IF b THEN "true" ELSE "false"

\* a key that leaves the quality tier out
cacheKey_NoTier(request) ==
  request.prompt \o "-" \o request.aspectRatio \o "-" \o request.resolution

cacheKey(request) ==
  request.prompt \o "-" \o request.aspectRatio \o "-" \o request.resolution
    \o "-" \o BoolString(request.useProModel)

preferredModel(request) ==
  IF request.useProModel THEN "gemini-3-pro-image-preview" ELSE "gemini-2.5-flash-image"

\* modelName.includes('pro'), on the model names of the module
includesPro(modelName) ==
  modelName \in {"gemini-3-pro-image-preview", "gemini-3-pro-preview"}

Undefined == "undefined"

\* resolution === ImageResolution.RES_8K ? '4K' : resolution
apiResolution(resolution) == IF resolution = "8K" THEN "4K" ELSE resolution

\* the request tryModel sends
TryModelPayload(request, modelName) ==
  [api |-> "generateContent", model |-> modelName, prompt |-> request.prompt,
   aspectRatio |-> request.aspectRatio,
   imageSize |-> IF includesPro(modelName)
                   THEN apiResolution(request.resolution)
                   ELSE Undefined]

\* the aspect ratio generateWithImagen sends
ImagenAspectRatio(aspectRatio) ==
  CASE aspectRatio = "1:1" -> "1:1"
    [] aspectRatio = "2:3" -> "3:4"
    [] aspectRatio = "3:2" -> "4:3"
    [] aspectRatio = "3:4" -> "3:4"
    [] aspectRatio = "4:3" -> "4:3"
    [] aspectRatio = "9:16" -> "9:16"
    [] aspectRatio = "16:9" -> "16:9"
    [] OTHER -> "1:1"

ImagenPayload(prompt, aspectRatio) ==
  [api |-> "generateImages", model |-> "imagen-3.0-generate-001", prompt |-> prompt,
   aspectRatio |-> ImagenAspectRatio(aspectRatio), imageSize |-> Undefined]

\* the request generateWithGemini2 sends
Gemini2Payload(prompt, aspectRatio) ==
  [api |-> "generateContent", model |-> "gemini-2.0-flash-exp", prompt |-> prompt,
   aspectRatio |-> aspectRatio, imageSize |-> Undefined]

\* the rungs of generateImage in the order the code tries them
Rung(via, model, modelUsed) == [via |-> via, model |-> model, modelUsed |-> modelUsed]

\* a waterfall that asks the experimental model before Imagen
GenerateWaterfall_ImagenLater(request) ==
  <<Rung("tryModel", preferredModel(request), preferredModel(request))>>
  \o (IF request.useProModel
        THEN <<Rung("tryModel", "gemini-2.5-flash-image", "gemini-2.5-flash-image")>>
        ELSE <<>>)
  \o <<Rung("tryModel", "gemini-2.0-flash-exp", "gemini-2.0-flash-exp"),
       Rung("generateWithImagen", "imagen-3.0-generate-001", "imagen-3.0"),
       Rung("tryModel", "gemini-2.0-flash-thinking-exp", "gemini-2.0-flash-thinking-exp"),
       Rung("tryModel", "gemini-1.5-flash", "gemini-1.5-flash")>>

GenerateWaterfall(request) ==
  <<Rung("tryModel", preferredModel(request), preferredModel(request))>>
  \o (IF request.useProModel
        THEN <<Rung("tryModel", "gemini-2.5-flash-image", "gemini-2.5-flash-image")>>
        ELSE <<>>)
  \o <<Rung("generateWithImagen", "imagen-3.0-generate-001", "imagen-3.0"),
       Rung("tryModel", "gemini-2.0-flash-exp", "gemini-2.0-flash-exp"),
       Rung("tryModel", "gemini-2.0-flash-thinking-exp", "gemini-2.0-flash-thinking-exp"),
       Rung("tryModel", "gemini-1.5-flash", "gemini-1.5-flash")>>

ApiKeyError ==
  Error(<<"API Key not found. Please select a key in the toolbar or configure process.env.API_KEY.">>)

AllBusyError ==
  Error(<<"All AI models are currently busy or out of quota. Please try again in 1 minute.">>)

(***************************************************************************)
(* State.                                                                  *)
(***************************************************************************)
VARIABLES
  apiKey,         \* process.env.API_KEY is set
  responseCache,  \* the module-level Map: cache key -> images
  calls,          \* the calls in progress, one record per caller
  ui              \* the state of the components of the user interface

vars == <<apiKey, responseCache, calls, ui>>

NoResult == [kind |-> "none"]
Return(value) == [kind |-> "return", value |-> value]
Throw(error) == [kind |-> "throw", error |-> error]

NoPayload == [api |-> "none"]
NoArgs == [none |-> TRUE]
NoError == [message |-> <<>>]

\* a caller with no call in progress
Idle ==
  [fn |-> "none", pc |-> "idle", args |-> NoArgs, rung |-> 0,
   wrapped |-> FALSE, retries |-> 0, delay |-> 0, pending |-> NoPayload,
   invoked |-> <<>>, attempts |-> 0, slept |-> <<>>, thrown |-> <<>>,
   geminiError |-> NoError, newPrompt |-> <<>>,
   result |-> NoResult, consumer |-> "none",
   handler |-> "none", ensured |-> "none",
   metered |-> FALSE, invocations |-> 0]

\* a function is called with its arguments
Called(fn, args) == [Idle EXCEPT !.fn = fn, !.args = args]

\* the call settles: its promise resolves or rejects
Finish(s, result) ==
  [s EXCEPT !.pc = "done", !.result = result, !.pending = NoPayload]

\* operation() is invoked: one more request goes to the backend.  The
\* requests are counted for the calls that are metered.
Invoke(s) == IF s.metered THEN [s EXCEPT !.invocations = @ + 1] ELSE s

\* withRetry(operation) is entered with the default policy and invokes operation
EnterWithRetry(s, payload) ==
  [Invoke(s) EXCEPT !.pc = "call", !.wrapped = TRUE,
            !.retries = DefaultRetries, !.delay = DefaultDelay,
            !.pending = payload, !.invoked = Append(@, payload.model),
            !.attempts = 1, !.slept = <<>>, !.thrown = <<>>]

\* a backend request is awaited without withRetry
EnterAwait(s, payload) ==
  [Invoke(s) EXCEPT !.pc = "call", !.wrapped = FALSE, !.retries = 0, !.delay = 0,
            !.pending = payload, !.invoked = Append(@, payload.model),
            !.attempts = 1, !.slept = <<>>, !.thrown = <<>>]

(***************************************************************************)
(* generateImage of the current service module.                            *)
(***************************************************************************)
GenerateRungPayload(request, rung) ==
  IF rung.via = "tryModel"
    THEN TryModelPayload(request, rung.model)
    ELSE ImagenPayload(request.prompt, request.aspectRatio)

\* control reaches rung k of the waterfall, or falls off its end
GenerateEnterRung(s, k) ==
  LET waterfall == GenerateWaterfall(s.args)
  IN  IF k > Len(waterfall)
        THEN Finish(s, Throw(AllBusyError))
        ELSE EnterWithRetry([s EXCEPT !.rung = k],
                            GenerateRungPayload(s.args, waterfall[k]))

\* an entry that does not consult the cache
GenerateImageEntry_NoCacheCheck(request, cache, key) ==
  IF ~key
    THEN Finish(Called("generateImage", request), Throw(ApiKeyError))
    ELSE GenerateEnterRung(Called("generateImage", request), 1)

\* the entry of generateImage up to its first suspension point
GenerateImageEntry(request, cache, key) ==
  IF cacheKey(request) \in DOMAIN cache
    THEN Finish(Called("generateImage", request),
                Return([images |-> cache[cacheKey(request)], usedFallback |-> FALSE,
                        modelUsed |-> "Cache"]))
    ELSE IF ~key
      THEN Finish(Called("generateImage", request), Throw(ApiKeyError))
      ELSE GenerateEnterRung(Called("generateImage", request), 1)

\* the images a rung obtains from a response; empty when tryModel throws
\* "No image in response" or Imagen generated nothing
GenerateRungImages(rung, response) ==
  IF rung.via = "tryModel" THEN ExtractImages(response) ELSE ImagenImages(response)

\* a continuation that returns whatever the rung obtained, images or not
GenerateResolved_NoEmptyCheck(s, response) ==
  LET rung == GenerateWaterfall(s.args)[s.rung]
      imgs == GenerateRungImages(rung, response)
  IN  Finish(s, Return([images |-> imgs, usedFallback |-> s.rung # 1,
                        modelUsed |-> rung.modelUsed]))

\* a continuation that flags every backend result as a fallback
GenerateResolved_AlwaysFallback(s, response) ==
  LET rung == GenerateWaterfall(s.args)[s.rung]
      imgs == GenerateRungImages(rung, response)
  IN  IF Len(imgs) = 0
        THEN GenerateEnterRung(s, s.rung + 1)
        ELSE Finish(s, Return([images |-> imgs, usedFallback |-> s.rung # 0,
                               modelUsed |-> rung.modelUsed]))

\* the awaited withRetry of the current rung resolved
GenerateResolved(s, response) ==
  LET rung == GenerateWaterfall(s.args)[s.rung]
      imgs == GenerateRungImages(rung, response)
  IN  IF Len(imgs) = 0
        THEN GenerateEnterRung(s, s.rung + 1)
        ELSE Finish(s, Return([images |-> imgs, usedFallback |-> s.rung # 1,
                               modelUsed |-> rung.modelUsed]))

\* a cache write on every rung that obtained images
GenerateCacheWrite_AnyRung(s, response, cache) ==
  LET rung == GenerateWaterfall(s.args)[s.rung]
      imgs == GenerateRungImages(rung, response)
  IN  IF Len(imgs) # 0
        THEN [k \in DOMAIN cache \cup {cacheKey(s.args)} |->
                 IF k = cacheKey(s.args) THEN imgs ELSE cache[k]]
        ELSE cache

\* a cache write on the primary rung before the images are checked
GenerateCacheWrite_BeforeCheck(s, response, cache) ==
  LET rung == GenerateWaterfall(s.args)[s.rung]
      imgs == GenerateRungImages(rung, response)
  IN  IF s.rung = 1
        THEN [k \in DOMAIN cache \cup {cacheKey(s.args)} |->
                 IF k = cacheKey(s.args) THEN imgs ELSE cache[k]]
        ELSE cache

\* responseCache.set(cacheKey, imgs) on the primary rung
GenerateCacheWrite(s, response, cache) ==
  LET rung == GenerateWaterfall(s.args)[s.rung]
      imgs == GenerateRungImages(rung, response)
  IN  IF s.rung = 1 /\ Len(imgs) # 0
        THEN [k \in DOMAIN cache \cup {cacheKey(s.args)} |->
                 IF k = cacheKey(s.args) THEN imgs ELSE cache[k]]
        ELSE cache

\* a catch block that gives up the walk on a permission failure
GenerateRejected_AbortOnPermission(s, error) ==
  IF includes(errStr(error), "403")
    THEN Finish(s, Throw(error))
    ELSE GenerateEnterRung(s, s.rung + 1)

\* a catch block of the preferred model that gives the preferred model a
\* second withRetry before the fallbacks
GenerateRejected_PreferredTwice(s, error) ==
  IF Len(s.invoked) = 1 THEN GenerateEnterRung(s, 1) ELSE GenerateEnterRung(s, s.rung + 1)

\* the awaited withRetry of the current rung threw: the rung's catch block
GenerateRejected(s, error) == GenerateEnterRung(s, s.rung + 1)

(***************************************************************************)
(* editImage and syntheticEditWithImagen of the current service module.    *)
(***************************************************************************)
\* source images: a data URL with its mime prefix, or bare base64
SourceImage(prefix, base64) == [prefix |-> prefix, base64 |-> base64]

\* img.split(',')[1] || img
clean(img) == img.base64

\* the mime type detected from the prefix of the data URL
mime(img) ==
  IF img.prefix = "data:image/png" THEN "image/png"
  ELSE IF img.prefix = "data:image/webp" THEN "image/webp"
  ELSE "image/jpeg"

EditImageLists ==
  { <<SourceImage("data:image/png", "b1")>>,
    <<SourceImage("data:image/jpeg", "b1"), SourceImage("data:image/webp", "b2")>>,
    <<SourceImage("", "b1"), SourceImage("data:image/gif", "b2"),
      SourceImage("data:image/png", "b3")>> }

Null == "null"

EditRequests ==
  [base64Images : EditImageLists, userPrompt : {"remove background"},
   aspectRatio : {Null, "16:9"}, resolution : {Null, "2K", "4K"}]

\* the parts built from the source images
InlineParts(base64Images) ==
  [i \in DOMAIN base64Images |->
      [data |-> clean(base64Images[i]), mimeType |-> mime(base64Images[i])]]

masterPrompt(request) ==
  [mode |-> "Multimodal Edit",
   targetAspectRatio |-> IF request.aspectRatio = Null THEN "Original" ELSE request.aspectRatio,
   resolution |-> IF request.resolution = "2K" THEN "2048px" ELSE "1024px",
   inputImages |-> Len(request.base64Images),
   userPrompt |-> request.userPrompt]

\* the request tryEdit sends
TryEditPayload(request, model) ==
  [api |-> "generateContent", model |-> model,
   parts |-> InlineParts(request.base64Images), prompt |-> masterPrompt(request),
   aspectRatio |-> IF request.aspectRatio = Null THEN Undefined ELSE request.aspectRatio,
   imageSize |-> Undefined]

\* aspectRatio || AspectRatio.SQUARE
OrSquare(aspectRatio) == IF aspectRatio = Null THEN "1:1" ELSE aspectRatio

descriptionPrompt(request) ==
  [count |-> Len(request.base64Images), instruction |-> request.userPrompt]

\* the description request of the synthetic edit
DescribePayload(request, model) ==
  [api |-> "generateContent", model |-> model,
   parts |-> InlineParts(request.base64Images), prompt |-> descriptionPrompt(request),
   aspectRatio |-> Undefined, imageSize |-> Undefined]

\* the models of the edit waterfall, in the order of the `models` array
EditWaterfall ==
  <<Rung("tryEdit", "gemini-2.5-flash-image", "gemini-2.5-flash-image"),
    Rung("tryEdit", "gemini-2.0-flash-exp", "gemini-2.0-flash-exp"),
    Rung("tryEdit", "gemini-2.0-flash-thinking-exp", "gemini-2.0-flash-thinking-exp")>>

\* the description attempts of syntheticEditWithImagen, outermost try first
DescribeAttempts ==
  <<Rung("describe", "gemini-2.5-flash", "gemini-2.5-flash"),
    Rung("describe", "gemini-2.0-flash-exp", "gemini-2.0-flash-exp"),
    Rung("describe", "gemini-1.5-flash", "gemini-1.5-flash")>>

\* the two generation steps of syntheticEditWithImagen
SynthesisSteps ==
  <<Rung("generateWithImagen", "imagen-3.0-generate-001", "imagen-3.0"),
    Rung("generateWithGemini2", "gemini-2.0-flash-exp", "gemini-2.0-flash-exp")>>

\* the stages of editImage in the order the code reaches them
EditStages == EditWaterfall \o DescribeAttempts \o SynthesisSteps

FirstSynthesis == Len(EditWaterfall) + Len(DescribeAttempts) + 1

EditorError == Error(<<"Editor returned no image from any available AI.">>)

EditStagePayload(s, k) ==
  LET stage == EditStages[k]
  IN  CASE stage.via = "tryEdit" -> TryEditPayload(s.args, stage.model)
        [] stage.via = "describe" -> DescribePayload(s.args, stage.model)
        [] stage.via = "generateWithImagen" ->
             ImagenPayload(s.newPrompt, OrSquare(OrSquare(s.args.aspectRatio)))
        [] OTHER -> Gemini2Payload(s.newPrompt, OrSquare(OrSquare(s.args.aspectRatio)))

\* a failure of the synthetic pipeline that leaves editImage as the error
\* raised inside syntheticEditWithImagen
EditFail_Propagate(s) ==
  Finish(s, Throw(Error(<<"Could not describe image for synthetic edit">>)))

\* syntheticEditWithImagen returned null: editImage throws its final error
EditFail(s) == Finish(s, Throw(EditorError))

EditEnterStage(s, k) == EnterWithRetry([s EXCEPT !.rung = k], EditStagePayload(s, k))

\* an entry that starts with the synthetic pipeline
EditImageEntry_SyntheticFirst(request, key) ==
  IF ~key
    THEN Finish(Called("editImage", request), Throw(ApiKeyError))
    ELSE EditEnterStage(Called("editImage", request), Len(EditWaterfall) + 1)

\* the entry of editImage up to its first suspension point
EditImageEntry(request, key) ==
  IF ~key
    THEN Finish(Called("editImage", request), Throw(ApiKeyError))
    ELSE EditEnterStage(Called("editImage", request), 1)

\* descResponse.text: the text parts of the response
ResponseText(response) ==
  IF response.candidates
    THEN LET kept == SelectSeq(response.parts, LAMBDA part : part.kind = "text")
         IN  [i \in DOMAIN kept |-> kept[i].data]
    ELSE <<>>

\* a continuation that gives up when Imagen answers without an image
EditResolved_StopAfterImagen(s, response) ==
  LET stage == EditStages[s.rung]
      imgs == ExtractImages(response)
  IN  CASE stage.via = "tryEdit" ->
             IF Len(imgs) > 0
               THEN Finish(s, Return([image |-> imgs[1], usedSynthetic |-> FALSE]))
               ELSE EditEnterStage(s, s.rung + 1)
        [] stage.via = "describe" ->
             IF ResponseText(response) = <<>>
               THEN EditFail(s)
               ELSE EditEnterStage([s EXCEPT !.newPrompt = ResponseText(response)],
                                   FirstSynthesis)
        [] stage.via = "generateWithImagen" ->
             IF Len(ImagenImages(response)) > 0
               THEN Finish(s, Return([image |-> ImagenImages(response)[1],
                                      usedSynthetic |-> TRUE]))
               ELSE EditFail(s)
        [] OTHER ->
             IF Len(imgs) > 0
               THEN Finish(s, Return([image |-> imgs[1], usedSynthetic |-> TRUE]))
               ELSE EditFail(s)

\* the awaited withRetry of the current stage resolved
EditResolved(s, response) ==
  LET stage == EditStages[s.rung]
      imgs == ExtractImages(response)
  IN  CASE stage.via = "tryEdit" ->
             IF Len(imgs) > 0
               THEN Finish(s, Return([image |-> imgs[1], usedSynthetic |-> FALSE]))
               ELSE EditEnterStage(s, s.rung + 1)
        [] stage.via = "describe" ->
             IF ResponseText(response) = <<>>
               THEN EditFail(s)
               ELSE EditEnterStage([s EXCEPT !.newPrompt = ResponseText(response)],
                                   FirstSynthesis)
        [] stage.via = "generateWithImagen" ->
             IF Len(ImagenImages(response)) > 0
               THEN Finish(s, Return([image |-> ImagenImages(response)[1],
                                      usedSynthetic |-> TRUE]))
               ELSE EditEnterStage(s, s.rung + 1)
        [] OTHER ->
             IF Len(imgs) > 0
               THEN Finish(s, Return([image |-> imgs[1], usedSynthetic |-> TRUE]))
               ELSE EditFail(s)

\* catch blocks that go on to the synthesis when the last description
\* attempt threw
EditRejected_SynthesizeAnyway(s, error) ==
  LET stage == EditStages[s.rung]
  IN  CASE stage.via = "tryEdit" -> EditEnterStage(s, s.rung + 1)
        [] stage.via = "describe" -> EditEnterStage(s, s.rung + 1)
        [] stage.via = "generateWithImagen" -> EditEnterStage(s, s.rung + 1)
        [] OTHER -> EditFail(s)

\* the awaited withRetry of the current stage threw
EditRejected(s, error) ==
  LET stage == EditStages[s.rung]
  IN  CASE stage.via = "tryEdit" -> EditEnterStage(s, s.rung + 1)
        [] stage.via = "describe" ->
             IF s.rung + 1 < FirstSynthesis
               THEN EditEnterStage(s, s.rung + 1)
               ELSE EditFail(s)
        [] stage.via = "generateWithImagen" -> EditEnterStage(s, s.rung + 1)
        [] OTHER -> EditFail(s)

(***************************************************************************)
(* sendChatMessage of the current service module.                          *)
(***************************************************************************)
ChatRequests == [history : {<<>>}, message : {"hello"}, mode : {"fast", "thinking"}]

\* the model sequence of a chat mode
ChatSequence(mode) ==
  IF mode = "thinking"
    THEN <<"gemini-3-pro-preview", "gemini-2.5-flash-lite", "gemini-2.0-flash-exp",
           "gemini-1.5-flash">>
    ELSE <<"gemini-2.5-flash-lite", "gemini-2.0-flash-exp", "gemini-1.5-flash">>

\* the request attemptChat sends: chats.create, then sendMessageStream
AttemptChatPayload(request, model) ==
  [api |-> "sendMessageStream", model |-> model, history |-> request.history,
   message |-> request.message,
   thinkingBudget |-> IF includesPro(model) THEN "32768" ELSE Undefined]

ChatUnavailableError ==
  Error(<<"All chat models are currently unavailable due to high traffic.">>)

\* a loop that starts over at the first model when the sequence is used up
ChatEnterModel_StartOver(s, k) ==
  IF k > Len(ChatSequence(s.args.mode))
    THEN EnterWithRetry([s EXCEPT !.rung = 1, !.invoked = <<>>],
                        AttemptChatPayload(s.args, ChatSequence(s.args.mode)[1]))
    ELSE EnterWithRetry([s EXCEPT !.rung = k],
                        AttemptChatPayload(s.args, ChatSequence(s.args.mode)[k]))

\* the loop reaches model k of the sequence, or ends
ChatEnterModel(s, k) ==
  IF k > Len(ChatSequence(s.args.mode))
    THEN Finish(s, Throw(ChatUnavailableError))
    ELSE EnterWithRetry([s EXCEPT !.rung = k],
                        AttemptChatPayload(s.args, ChatSequence(s.args.mode)[k]))

\* an entry that starts the sequence without looking for the API key
SendChatMessageEntry_NoKeyCheck(request, key) ==
  ChatEnterModel(Called("sendChatMessage", request), 1)

\* the entry of sendChatMessage up to its first suspension point
SendChatMessageEntry(request, key) ==
  IF ~key
    THEN Finish(Called("sendChatMessage", request), Throw(ApiKeyError))
    ELSE ChatEnterModel(Called("sendChatMessage", request), 1)

\* a return that tags the stream with the first model of the sequence
ChatResolved_TagFirst(s, response) ==
  Finish(s, Return([stream |-> response,
                    modelUsed |-> ChatSequence(s.args.mode)[1]]))

\* attemptChat resolved: the stream is returned with the model that opened it
ChatResolved(s, response) ==
  Finish(s, Return([stream |-> response,
                    modelUsed |-> ChatSequence(s.args.mode)[s.rung]]))

\* a catch block that rethrows what attemptChat threw
ChatRejected_Rethrow(s, error) == Finish(s, Throw(error))

\* attemptChat threw: the catch block of the loop
ChatRejected(s, error) == ChatEnterModel(s, s.rung + 1)

(***************************************************************************)
(* generateImage of services/gemini.ts (the earlier version).              *)
(***************************************************************************)
PermissionDeniedError ==
  Error(<<"Permission Denied (403). Your API key likely lacks access to the 'Pro' model. Please switch to 'Standard' (Flash) mode in Settings.">>)
QuotaExceededError ==
  Error(<<"Quota Exceeded (Limit Hit). Switching AI models might help.">>)
InvalidRequestError ==
  Error(<<"Invalid Request. The model may not support this specific resolution or aspect ratio combination.">>)
NoImagesErrorV1 == Error(<<"Gemini returned no images">>)

\* the error handleGeminiError throws; it always throws
handleGeminiError(error) ==
  IF \/ includes(errStr(error), "403")
     \/ includes(errMsg(error), "permission denied")
     \/ includes(errMsg(error), "permission_denied")
    THEN PermissionDeniedError
  ELSE IF \/ includes(errStr(error), "429")
          \/ includes(errMsg(error), "resource exhausted")
          \/ includes(errMsg(error), "quota")
    THEN QuotaExceededError
  ELSE IF \/ includes(errStr(error), "400")
          \/ includes(errMsg(error), "invalid_argument")
    THEN InvalidRequestError
  ELSE error

ImagenAspectRatioV1(aspectRatio) ==
  CASE aspectRatio = "1:1" -> "1:1"
    [] aspectRatio = "2:3" -> "3:4"
    [] aspectRatio = "3:2" -> "4:3"
    [] aspectRatio = "3:4" -> "3:4"
    [] aspectRatio = "4:3" -> "4:3"
    [] aspectRatio = "9:16" -> "9:16"
    [] aspectRatio = "16:9" -> "16:9"
    [] aspectRatio = "21:9" -> "16:9"
    [] OTHER -> "1:1"

ImagenPayloadV1(prompt, aspectRatio) ==
  [api |-> "generateImages", model |-> "imagen-3.0-generate-001", prompt |-> prompt,
   aspectRatio |-> ImagenAspectRatioV1(aspectRatio), imageSize |-> Undefined]

finalPromptV1(request) ==
  IF request.resolution = "8K" /\ request.useProModel
    THEN request.prompt \o " (Highly detailed 8K resolution masterpiece, ultra-sharp)"
    ELSE request.prompt

GeminiPayloadV1(request) ==
  [api |-> "generateContent", model |-> preferredModel(request),
   prompt |-> finalPromptV1(request), aspectRatio |-> request.aspectRatio,
   imageSize |-> IF request.useProModel THEN apiResolution(request.resolution)
                                        ELSE Undefined]

GenerateImageV1Entry(request, key) ==
  IF ~key
    THEN Finish(Called("generateImageV1", request), Throw(ApiKeyError))
    ELSE EnterWithRetry([Called("generateImageV1", request) EXCEPT !.rung = 1],
                        GeminiPayloadV1(request))

\* a catch block that asks Imagen after every failure of the primary attempt
FallsBackV1_Always(geminiError) == TRUE

\* the condition of the Imagen fallback in the catch block
FallsBackV1(geminiError) ==
  LET str == toLowerCase(toString(geminiError))
  IN  \/ includes(str, "429") \/ includes(str, "403")
      \/ includes(str, "quota") \/ includes(str, "permission")

\* the catch block of the primary attempt
GenerateV1Catch(s, geminiError) ==
  IF FallsBackV1(geminiError)
    THEN EnterAwait([s EXCEPT !.rung = 2, !.geminiError = geminiError],
                    ImagenPayloadV1(s.args.prompt, s.args.aspectRatio))
    ELSE Finish(s, Throw(handleGeminiError(geminiError)))

GenerateV1Resolved(s, response) ==
  IF s.rung = 1
    THEN IF Len(ExtractImages(response)) > 0
           THEN Finish(s, Return([images |-> ExtractImages(response),
                                  usedFallback |-> FALSE]))
           ELSE GenerateV1Catch(s, NoImagesErrorV1)
    ELSE IF Len(ImagenImages(response)) > 0
           THEN Finish(s, Return([images |-> ImagenImages(response),
                                  usedFallback |-> TRUE]))
           ELSE Finish(s, Throw(handleGeminiError(s.geminiError)))

GenerateV1Rejected(s, error) ==
  IF s.rung = 1
    THEN GenerateV1Catch(s, error)
    ELSE Finish(s, Throw(handleGeminiError(s.geminiError)))

(***************************************************************************)
(* sendChatMessage of the earlier services/gemini.ts.                      *)
(***************************************************************************)
ChatPrimaryV1(mode) ==
  IF mode = "thinking" THEN "gemini-3-pro-preview" ELSE "gemini-2.5-flash-lite"

\* thinkingConfig: { thinkingBudget: 32768 } in thinking mode, else {}
ChatConfigV1(mode) == IF mode = "thinking" THEN "32768" ELSE Undefined

\* the request attemptChat(model, config) sends; it is not wrapped in withRetry
ChatPayloadV1(request, model, thinkingBudget) ==
  [api |-> "sendMessageStream", model |-> model, history |-> request.history,
   message |-> request.message, thinkingBudget |-> thinkingBudget]

\* the entry of sendChatMessage up to the awaited primary attempt
SendChatMessageV1Entry(request, key) ==
  IF ~key
    THEN Finish(Called("sendChatMessageV1", request), Throw(ApiKeyError))
    ELSE EnterAwait([Called("sendChatMessageV1", request) EXCEPT !.rung = 1],
                    ChatPayloadV1(request, ChatPrimaryV1(request.mode),
                                  ChatConfigV1(request.mode)))

\* return { stream, usedFallback: false } of the primary attempt,
\* return { stream: fallbackStream, usedFallback: true } of the fallback
ChatV1Resolved(s, response) ==
  Finish(s, Return([stream |-> response, usedFallback |-> s.rung = 2]))

\* catch blocks that throw the error of the fallback when it fails too
ChatV1Rejected_ThrowFallbackError(s, error) ==
  IF s.rung = 1 /\ s.args.mode = "thinking"
    THEN EnterAwait([s EXCEPT !.rung = 2, !.geminiError = error],
                    ChatPayloadV1(s.args, "gemini-2.5-flash-lite", Undefined))
    ELSE Finish(s, Throw(error))

\* the catch blocks: the primary attempt threw (its error is kept in
\* geminiError), or the fallback attempt threw
ChatV1Rejected(s, error) ==
  IF s.rung = 1
    THEN IF s.args.mode = "thinking"
           THEN EnterAwait([s EXCEPT !.rung = 2, !.geminiError = error],
                           ChatPayloadV1(s.args, "gemini-2.5-flash-lite", Undefined))
           ELSE Finish(s, Throw(error))
    ELSE Finish(s, Throw(s.geminiError))

(***************************************************************************)
(* withRetry called on its own, with an arbitrary operation.               *)
(***************************************************************************)
OperationPayload == [api |-> "operation", model |-> "operation"]

WithRetryResolved(s, response) == Finish(s, Return(response))
WithRetryRejected(s, error) == Finish(s, Throw(error))

(***************************************************************************)
(* Dispatch on the function a caller is executing.                         *)
(***************************************************************************)
V1Functions == {"withRetryV1", "generateImageV1"}

\* the retry branch of the withRetry in use
Retrying(s, error) ==
  /\ s.wrapped
  /\ IF s.fn \in V1Functions
       THEN ShouldRetryV1(error, s.retries)
       ELSE ShouldRetry(error, s.retries)

Multiplied(s) ==
  IF s.fn \in V1Functions THEN NextDelayV1(s.delay) ELSE NextDelay(s.delay)

\* the errors of the operation are recorded for withRetry called on its own
Observed(s, error) ==
  IF s.fn \in {"withRetry", "withRetryV1"}
    THEN [s EXCEPT !.thrown = Append(@, error)]
    ELSE s

\* the code after the awaited call
Resolved(s, response) ==
  CASE s.fn = "generateImage" -> GenerateResolved(s, response)
    [] s.fn = "editImage" -> EditResolved(s, response)
    [] s.fn = "sendChatMessage" -> ChatResolved(s, response)
    [] s.fn = "generateImageV1" -> GenerateV1Resolved(s, response)
    [] s.fn = "sendChatMessageV1" -> ChatV1Resolved(s, response)
    [] OTHER -> WithRetryResolved(s, response)

\* the catch block around the awaited call
Rejected(s, error) ==
  CASE s.fn = "generateImage" -> GenerateRejected(s, error)
    [] s.fn = "editImage" -> EditRejected(s, error)
    [] s.fn = "sendChatMessage" -> ChatRejected(s, error)
    [] s.fn = "generateImageV1" -> GenerateV1Rejected(s, error)
    [] s.fn = "sendChatMessageV1" -> ChatV1Rejected(s, error)
    [] OTHER -> WithRetryRejected(s, error)

CacheAfter(s, response, cache) ==
  CASE s.fn = "generateImage" -> GenerateCacheWrite(s, response, cache)
    [] OTHER -> cache

(***************************************************************************)
(* Actions.                                                                *)
(***************************************************************************)
\* a call that joins a call in flight for the same request instead of
\* starting its own waterfall
CallGenerateImage_Coalesce(c, request) ==
  /\ calls[c].pc = "idle"
  /\ calls' = [calls EXCEPT ![c] =
                 IF \E d \in DOMAIN calls :
                      d # c /\ calls[d].pc \in {"call", "sleep"} /\ calls[d].args = request
                   THEN [Called("generateImage", request) EXCEPT !.pc = "sleep"]
                   ELSE GenerateImageEntry(request, responseCache, apiKey)]
  /\ UNCHANGED <<apiKey, responseCache, ui>>

\* a caller invokes generateImage
CallGenerateImage(c, request) ==
  /\ calls[c].pc = "idle"
  /\ calls' = [calls EXCEPT ![c] = GenerateImageEntry(request, responseCache, apiKey)]
  /\ UNCHANGED <<apiKey, responseCache, ui>>

\* a caller invokes generateImage and the requests of the call are counted
CallGenerateImageMetered(c, request) ==
  /\ calls[c].pc = "idle"
  /\ LET entered == GenerateImageEntry(request, responseCache, apiKey)
     IN  calls' = [calls EXCEPT ![c] =
                     [entered EXCEPT !.metered = TRUE,
                                     !.invocations = Len(entered.invoked)]]
  /\ UNCHANGED <<apiKey, responseCache, ui>>

\* a caller invokes editImage
CallEditImage(c, request) ==
  /\ calls[c].pc = "idle"
  /\ calls' = [calls EXCEPT ![c] = EditImageEntry(request, apiKey)]
  /\ UNCHANGED <<apiKey, responseCache, ui>>

\* a caller invokes sendChatMessage
CallSendChatMessage(c, request) ==
  /\ calls[c].pc = "idle"
  /\ calls' = [calls EXCEPT ![c] = SendChatMessageEntry(request, apiKey)]
  /\ UNCHANGED <<apiKey, responseCache, ui>>

\* a caller invokes the earlier generateImage
CallGenerateImageV1(c, request) ==
  /\ calls[c].pc = "idle"
  /\ calls' = [calls EXCEPT ![c] = GenerateImageV1Entry(request, apiKey)]
  /\ UNCHANGED <<apiKey, responseCache, ui>>

\* a caller invokes sendChatMessage of the earlier services/gemini.ts
CallSendChatMessageV1(c, request) ==
  /\ calls[c].pc = "idle"
  /\ calls' = [calls EXCEPT ![c] = SendChatMessageV1Entry(request, apiKey)]
  /\ UNCHANGED <<apiKey, responseCache, ui>>

\* a caller invokes withRetry on an operation of its own
CallWithRetry(c, version) ==
  /\ calls[c].pc = "idle"
  /\ calls' = [calls EXCEPT ![c] = EnterWithRetry(Called(version, NoArgs), OperationPayload)]
  /\ UNCHANGED <<apiKey, responseCache, ui>>

\* the outstanding operation resolves
OperationResolves(c, response) ==
  /\ calls[c].pc = "call"
  /\ calls' = [calls EXCEPT ![c] = Resolved(calls[c], response)]
  /\ responseCache' = CacheAfter(calls[c], response, responseCache)
  /\ UNCHANGED <<apiKey, ui>>

\* the outstanding operation rejects: the catch block of withRetry, or of the
\* caller when the operation is not wrapped
OperationRejects(c, error) ==
  /\ calls[c].pc = "call"
  /\ LET s == Observed(calls[c], error)
     IN  calls' = [calls EXCEPT ![c] =
                     IF Retrying(s, error)
                       THEN [s EXCEPT !.pc = "sleep"]
                       ELSE Rejected(s, error)]
  /\ UNCHANGED <<apiKey, responseCache, ui>>

\* a sleep after which the next candidate is started while the retry of the
\* current one is still due
WaitElapses_NextCandidate(c) ==
  /\ calls[c].pc = "sleep"
  /\ calls' = [calls EXCEPT ![c] = Rejected(calls[c], NoError)]
  /\ UNCHANGED <<apiKey, responseCache, ui>>

\* wait(delay) elapses: withRetry(operation, retries - 1, delay * multiplier)
WaitElapses(c) ==
  /\ calls[c].pc = "sleep"
  /\ calls' = [calls EXCEPT ![c] =
                 [Invoke(calls[c]) EXCEPT !.pc = "call", !.retries = @ - 1,
                                  !.delay = Multiplied(calls[c]),
                                  !.attempts = @ + 1,
                                  !.slept = Append(@, calls[c].delay)]]
  /\ UNCHANGED <<apiKey, responseCache, ui>>

\* for await (const chunk of x): x has the async iterator method
IsAsyncIterable(x) == "asyncIterator" \in DOMAIN x

\* the ways the iteration of a stream can end: exhausted, or a failure thrown
\* by the stream
StreamOutcomes == {"completed", "error"}

\* what handleSendMessage iterates: the value sendChatMessage resolved to
Iterated(s) == s.result.value

\* the outcome of the for await loop of handleSendMessage: a TypeError when
\* the value is not iterable, else the outcome of the stream; an error runs
\* the catch block
ForAwaitOutcome(s, outcome) ==
  IF IsAsyncIterable(Iterated(s)) THEN outcome ELSE "error"

\* the stream of sendChatMessage awaits the handler's for await loop
Unconsumed(s) ==
  s.fn = "sendChatMessage" /\ s.pc = "done" /\ s.result.kind = "return"
    /\ s.consumer = "none"

\* a loop that, when the stream fails, asks the next candidate for a stream
ConsumeStream_FailOver(c, outcome) ==
  /\ Unconsumed(calls[c])
  /\ calls' = [calls EXCEPT ![c] =
                 IF ForAwaitOutcome(calls[c], outcome) = "error"
                   THEN ChatEnterModel(calls[c], calls[c].rung + 1)
                   ELSE [calls[c] EXCEPT !.consumer = outcome]]
  /\ UNCHANGED <<apiKey, responseCache, ui>>

\* handleSendMessage runs its for await loop over what sendChatMessage
\* resolved to
ConsumeStream(c, outcome) ==
  /\ Unconsumed(calls[c])
  /\ calls' = [calls EXCEPT ![c].consumer = ForAwaitOutcome(calls[c], outcome)]
  /\ UNCHANGED <<apiKey, responseCache, ui>>

\* the finally block of a handler: its busy flag is reset
Released(u, handler) ==
  CASE handler = "handleGenerate" -> [u EXCEPT !.isGenerating = FALSE]
    [] handler = "handleEdit" -> [u EXCEPT !.isProcessing = FALSE]
    [] handler = "handleSendMessage" -> [u EXCEPT !.isStreaming = FALSE]
    [] OTHER -> u

\* handleGenerate got images: it awaits its timeout of two seconds before
\* the finally block
Cooling(s) ==
  /\ s.handler = "handleGenerate"
  /\ s.result.kind = "return"
  /\ Len(s.result.value.images) > 0

\* a continuation of handleGenerate that resets the flag before the timeout
Settle_ReleaseEarly(c) ==
  /\ calls[c].pc = "done"
  /\ ~Unconsumed(calls[c])
  /\ calls' = [calls EXCEPT ![c] =
                 IF Cooling(calls[c]) THEN [calls[c] EXCEPT !.pc = "cooldown"] ELSE Idle]
  /\ ui' = Released(ui, calls[c].handler)
  /\ UNCHANGED <<apiKey, responseCache>>

\* the code after the awaited call: the caller has consumed the outcome and
\* may call again; in a handler, the rest of the try block, the catch block
\* and the finally block
Settle(c) ==
  /\ calls[c].pc = "done"
  /\ ~Unconsumed(calls[c])
  /\ IF Cooling(calls[c])
       THEN /\ calls' = [calls EXCEPT ![c].pc = "cooldown"]
            /\ UNCHANGED ui
       ELSE /\ calls' = [calls EXCEPT ![c] = Idle]
            /\ ui' = Released(ui, calls[c].handler)
  /\ UNCHANGED <<apiKey, responseCache>>

\* the timeout of handleGenerate elapses: the finally block
CooldownElapses(c) ==
  /\ calls[c].pc = "cooldown"
  /\ calls' = [calls EXCEPT ![c] = Idle]
  /\ ui' = Released(ui, calls[c].handler)
  /\ UNCHANGED <<apiKey, responseCache>>

EmptyCache == [k \in {} |-> <<>>]

\* sourceImages.length < 3
MaxSourceImages == 3

\* the file reads in progress at a time
MaxReaders == 2

\* the components as they are mounted: no source image, no file being read,
\* no handler busy
InitialUi ==
  [sourceImages |-> <<>>, readers |-> <<>>,
   isGenerating |-> FALSE, isProcessing |-> FALSE, isStreaming |-> FALSE]

(***************************************************************************)
(* The handlers of the user interface and ensureApiKey.                    *)
(***************************************************************************)
\* the host environment: window.aistudio and how its two methods answer.
\* openSelectKey resolves when its dialog is closed, with a key selected or
\* dismissed without one, or it throws.
Hosts ==
  [aistudio : BOOLEAN, hasSelectedApiKey : {"true", "false", "throws"},
   openSelectKey : {"selected", "dismissed", "throws"}]

\* what ensureApiKey resolves to
ensureApiKey(host) ==
  IF host.aistudio
    THEN IF host.hasSelectedApiKey = "throws"
           THEN FALSE
           ELSE IF host.hasSelectedApiKey = "false"
             THEN host.openSelectKey # "throws"
             ELSE TRUE
    ELSE TRUE

KeySelectionError == Error(<<"API Key selection cancelled or failed.">>)

\* the interface shows one feature at a time: the slot of the caller is
\* free, or holds a call of the same handler
Shown(c, handler) == calls[c].pc = "idle" \/ calls[c].handler = handler

\* handleGenerate up to its first suspension point in generateImage
HandleGenerate(c, request, host) ==
  /\ Shown(c, "handleGenerate")
  /\ ~ui.isGenerating
  /\ calls' = [calls EXCEPT ![c] =
       IF ensureApiKey(host)
         THEN [GenerateImageEntry(request, responseCache, apiKey)
                 EXCEPT !.handler = "handleGenerate", !.ensured = "true"]
         ELSE [Finish(Idle, Throw(KeySelectionError))
                 EXCEPT !.handler = "handleGenerate", !.ensured = "false"]]
  /\ ui' = [ui EXCEPT !.isGenerating = TRUE]
  /\ UNCHANGED <<apiKey, responseCache>>

\* the settings of the editor: prompt, aspect ratio and resolution
EditSettings ==
  [userPrompt : {"remove background"}, aspectRatio : {Null, "16:9"},
   resolution : {"2K", "4K", "8K"}]

\* editImage(sourceImages, prompt, aspectRatio, resolution)
EditRequest(images, settings) ==
  [base64Images |-> images, userPrompt |-> settings.userPrompt,
   aspectRatio |-> settings.aspectRatio, resolution |-> settings.resolution]

\* a handler that a second click starts again while it is processing
HandleEdit_Reentrant(c, settings) ==
  /\ Shown(c, "handleEdit")
  /\ Len(ui.sourceImages) # 0
  /\ calls' = [calls EXCEPT ![c] =
       [EditImageEntry(EditRequest(ui.sourceImages, settings), apiKey)
          EXCEPT !.handler = "handleEdit"]]
  /\ ui' = [ui EXCEPT !.isProcessing = TRUE]
  /\ UNCHANGED <<apiKey, responseCache>>

\* handleEdit up to its first suspension point in editImage; its button is
\* disabled while isProcessing
HandleEdit(c, settings) ==
  /\ Shown(c, "handleEdit")
  /\ ~ui.isProcessing
  /\ Len(ui.sourceImages) # 0
  /\ calls' = [calls EXCEPT ![c] =
       [EditImageEntry(EditRequest(ui.sourceImages, settings), apiKey)
          EXCEPT !.handler = "handleEdit"]]
  /\ ui' = [ui EXCEPT !.isProcessing = TRUE]
  /\ UNCHANGED <<apiKey, responseCache>>

\* handleSendMessage up to its first suspension point in sendChatMessage
HandleSendMessage(c, request) ==
  /\ Shown(c, "handleSendMessage")
  /\ ~ui.isStreaming
  /\ calls' = [calls EXCEPT ![c] =
       [SendChatMessageEntry(request, apiKey) EXCEPT !.handler = "handleSendMessage"]]
  /\ ui' = [ui EXCEPT !.isStreaming = TRUE]
  /\ UNCHANGED <<apiKey, responseCache>>

\* the files the user picks
Files == {SourceImage("data:image/png", "b1")}

\* handleFileSelect: a FileReader starts to read the file; its onload
\* closure holds the sourceImages of the render in which the file was
\* picked.  The buttons that open the file dialog are there while fewer than
\* three images are held.
HandleFileSelect(file) ==
  /\ Len(ui.sourceImages) < MaxSourceImages
  /\ Len(ui.readers) < MaxReaders
  /\ ui' = [ui EXCEPT !.readers =
              Append(@, [file |-> file, seen |-> Len(ui.sourceImages)])]
  /\ UNCHANGED <<apiKey, responseCache, calls>>

\* the sequence without its i-th element
Without(seq, i) == SubSeq(seq, 1, i - 1) \o SubSeq(seq, i + 1, Len(seq))

\* reader.onload of the i-th reader: the image is appended to the current
\* sourceImages when the closure's sourceImages hold fewer than three
FileLoaded(i) ==
  /\ i \in DOMAIN ui.readers
  /\ ui' = [ui EXCEPT
              !.readers = Without(@, i),
              !.sourceImages =
                 IF ui.readers[i].seen < MaxSourceImages
                   THEN Append(@, ui.readers[i].file)
                   ELSE @]
  /\ UNCHANGED <<apiKey, responseCache, calls>>

\* removeImage(index)
RemoveImage(index) ==
  /\ index \in DOMAIN ui.sourceImages
  /\ ui' = [ui EXCEPT !.sourceImages = Without(@, index)]
  /\ UNCHANGED <<apiKey, responseCache, calls>>

(***************************************************************************)
(* Spec: one caller that calls generateImage, of the current module or of  *)
(* services/gemini.ts, again and again.                                    *)
(***************************************************************************)
Init ==
  /\ apiKey \in BOOLEAN
  /\ responseCache = EmptyCache
  /\ ui = InitialUi
  /\ calls = [c \in {1} |-> Idle]

Next ==
  \/ \E request \in GenerateRequests : CallGenerateImage(1, request)
  \/ \E request \in GenerateRequests : CallGenerateImageV1(1, request)
  \/ \E request \in ChatRequests : CallSendChatMessageV1(1, request)
  \/ \E response \in Responses(1, calls[1].pending) : OperationResolves(1, response)
  \/ \E error \in BackendErrors : OperationRejects(1, error)
  \/ WaitElapses(1)
  \/ Settle(1)

Spec == Init /\ [][Next]_vars

(***************************************************************************)
(* SpecEdit: one caller that calls editImage or generateImage.             *)
(***************************************************************************)
InitEdit ==
  /\ apiKey \in BOOLEAN
  /\ responseCache = EmptyCache
  /\ ui = InitialUi
  /\ calls = [c \in {1} |-> Idle]

NextEdit ==
  \/ \E request \in EditRequests : CallEditImage(1, request)
  \/ \E request \in ConcurrentRequests : CallGenerateImage(1, request)
  \/ \E response \in Responses(1, calls[1].pending) : OperationResolves(1, response)
  \/ \E error \in BackendErrors : OperationRejects(1, error)
  \/ WaitElapses(1)
  \/ Settle(1)

SpecEdit == InitEdit /\ [][NextEdit]_vars

(***************************************************************************)
(* SpecAll: one caller that calls any entry point of the current service   *)
(* module.  SpecLive adds that an outstanding backend request completes    *)
(* and that a backoff sleep elapses.                                       *)
(***************************************************************************)
InitAll ==
  /\ apiKey \in BOOLEAN
  /\ responseCache = EmptyCache
  /\ ui = InitialUi
  /\ calls = [c \in {1} |-> Idle]

OperationCompletes(c) ==
  \/ \E response \in Responses(c, calls[c].pending) : OperationResolves(c, response)
  \/ \E error \in BackendErrors : OperationRejects(c, error)

NextAll ==
  \/ \E request \in ConcurrentRequests : CallGenerateImage(1, request)
  \/ \E request \in EditRequests : CallEditImage(1, request)
  \/ \E request \in ChatRequests : CallSendChatMessage(1, request)
  \/ \E outcome \in StreamOutcomes : ConsumeStream(1, outcome)
  \/ OperationCompletes(1)
  \/ WaitElapses(1)
  \/ Settle(1)

SpecAll == InitAll /\ [][NextAll]_vars

SpecLive ==
  /\ InitAll /\ [][NextAll]_vars
  /\ WF_vars(OperationCompletes(1))
  /\ WF_vars(WaitElapses(1))

(***************************************************************************)
(* SpecUI: the user triggers the three handlers of the interface, one at a *)
(* time.                                                                   *)
(***************************************************************************)
InitUI ==
  /\ apiKey \in BOOLEAN
  /\ responseCache = EmptyCache
  /\ \E images \in EditImageLists : ui = [InitialUi EXCEPT !.sourceImages = images]
  /\ calls = [c \in {1} |-> Idle]

NextUI ==
  \/ \E request \in ConcurrentRequests, host \in Hosts : HandleGenerate(1, request, host)
  \/ \E settings \in EditSettings : HandleEdit(1, settings)
  \/ \E request \in ChatRequests : HandleSendMessage(1, request)
  \/ \E outcome \in StreamOutcomes : ConsumeStream(1, outcome)
  \/ OperationCompletes(1)
  \/ WaitElapses(1)
  \/ Settle(1)
  \/ CooldownElapses(1)

SpecUI == InitUI /\ [][NextUI]_vars

(***************************************************************************)
(* SpecConcurrent: two callers of generateImage whose calls overlap and    *)
(* share the cache.                                                        *)
(***************************************************************************)
Callers == {1, 2}

InitConcurrent ==
  /\ apiKey \in BOOLEAN
  /\ responseCache = EmptyCache
  /\ ui = InitialUi
  /\ calls = [c \in Callers |-> Idle]

NextConcurrent ==
  \E c \in Callers :
    \/ \E request \in ConcurrentRequests : CallGenerateImage(c, request)
    \/ \E response \in Responses(c, calls[c].pending) : OperationResolves(c, response)
    \/ \E error \in BackendErrors : OperationRejects(c, error)
    \/ WaitElapses(c)
    \/ Settle(c)

SpecConcurrent == InitConcurrent /\ [][NextConcurrent]_vars

(***************************************************************************)
(* SpecCacheKey: the cache key of generateImage as a function, computed    *)
(* for two requests side by side.  The prompts contain the separator and   *)
(* the text of the other fields.                                           *)
(***************************************************************************)
KeyPrompts == {"", "cat", "cat-", "cat-1:1", "cat-1:1-2K", "cat-1:1-2K-true"}
KeyAspectRatios == {"1:1", "16:9", "21:9"}
KeyResolutions == {"2K", "4K", "8K"}

KeyRequests ==
  [prompt : KeyPrompts, aspectRatio : KeyAspectRatios, resolution : KeyResolutions,
   useProModel : BOOLEAN]

\* const cacheKey = `${prompt}-${aspectRatio}-${resolution}-${useProModel}`
ComputeCacheKey(c, request) ==
  /\ calls[c].pc = "idle"
  /\ calls' = [calls EXCEPT ![c] =
       Finish(Called("cacheKey", request), Return(cacheKey(request)))]
  /\ UNCHANGED <<apiKey, responseCache, ui>>

InitCacheKey ==
  /\ apiKey = TRUE
  /\ responseCache = EmptyCache
  /\ ui = InitialUi
  /\ calls = [c \in Callers |-> Idle]

NextCacheKey ==
  \E c \in Callers :
    \/ \E request \in KeyRequests : ComputeCacheKey(c, request)
    \/ Settle(c)

SpecCacheKey == InitCacheKey /\ [][NextCacheKey]_vars

(***************************************************************************)
(* SpecEditor: the image editor.  The user picks files, the reads complete *)
(* in any order, images are removed, and handleEdit is triggered.          *)
(***************************************************************************)
EditorSettings == {st \in EditSettings : st.aspectRatio = Null /\ st.resolution = "2K"}

InitEditor ==
  /\ apiKey = TRUE
  /\ responseCache = EmptyCache
  /\ ui = InitialUi
  /\ calls = [c \in {1} |-> Idle]

NextEditor ==
  \/ \E file \in Files : HandleFileSelect(file)
  \/ \E i \in 1..MaxReaders : FileLoaded(i)
  \/ \E index \in 1..(MaxSourceImages + MaxReaders) : RemoveImage(index)
  \/ \E settings \in EditorSettings : HandleEdit(1, settings)
  \/ OperationCompletes(1)
  \/ WaitElapses(1)
  \/ Settle(1)

SpecEditor == InitEditor /\ [][NextEditor]_vars

(***************************************************************************)
(* SpecRetry: withRetry (both versions) around an arbitrary operation.     *)
(***************************************************************************)
InitRetry ==
  /\ apiKey = TRUE
  /\ responseCache = EmptyCache
  /\ ui = InitialUi
  /\ calls = [c \in {1} |-> Idle]

NextRetry ==
  \/ \E version \in {"withRetry", "withRetryV1"} : CallWithRetry(1, version)
  \/ \E response \in Responses(1, calls[1].pending) : OperationResolves(1, response)
  \/ \E error \in BackendErrors : OperationRejects(1, error)
  \/ WaitElapses(1)
  \/ Settle(1)

SpecRetry == InitRetry /\ [][NextRetry]_vars

(***************************************************************************)
(* SpecMetered: generateImage with its backend requests counted, beside    *)
(* withRetry around an arbitrary operation.                                *)
(***************************************************************************)
NextMetered ==
  \/ \E request \in GenerateRequests : CallGenerateImageMetered(1, request)
  \/ CallWithRetry(1, "withRetry")
  \/ OperationCompletes(1)
  \/ WaitElapses(1)
  \/ Settle(1)

SpecMetered == InitRetry /\ [][NextMetered]_vars

(***************************************************************************)
(* Properties.                                                             *)
(***************************************************************************)
Min(a, b) == IF a < b THEN a ELSE b

Done(s, fn) == s.fn = fn /\ s.pc = "done"
Returned(s, fn) == Done(s, fn) /\ s.result.kind = "return"
Threw(s, fn) == Done(s, fn) /\ s.result.kind = "throw"
InFlight(s) == s.pc \in {"call", "sleep"}

\* the marking of a result as a fallback (degraded) result: usedFallback of
\* generateImage; editImage returns usedSynthetic as its only marking
MarkedDegraded(s) ==
  IF s.fn = "editImage" THEN s.result.value.usedSynthetic
                        ELSE s.result.value.usedFallback

\* the candidate list a call walks
Candidates(s) ==
  IF s.fn = "editImage" THEN EditWaterfall ELSE GenerateWaterfall(s.args)

\* the models that produced the images of a returned result
Producers(s) ==
  IF s.fn = "editImage"
    THEN {s.result.value.image.data[1]}
    ELSE {s.result.value.images[i].data[1] : i \in DOMAIN s.result.value.images}

\* C1: in generateImage and editImage, when the first candidate A fails
\* without a result (an invalid-request error is not retried) and the second
\* candidate B yields an image, the result is served by B, is marked as a
\* fallback/degraded result, A and B were invoked in list order and the
\* third candidate C was never invoked.
C1_SecondCandidateServesDegraded ==
  \A c \in DOMAIN calls :
    LET s == calls[c]
    IN  (/\ s.fn \in {"generateImage", "editImage"}
         /\ s.pc = "done" /\ s.result.kind = "return" /\ s.rung = 2)
        => /\ Producers(s) = {Candidates(s)[2].model}
           /\ s.invoked = <<Candidates(s)[1].model, Candidates(s)[2].model>>
           /\ MarkedDegraded(s)

\* a call of generateImage completed with a success of its primary candidate
PrimarySuccess(s) == Returned(s, "generateImage") /\ s.rung = 1

\* C2: when a generateImage call starts with the same prompt, aspect ratio,
\* resolution and tier as a call that completed with a success of the primary
\* candidate, it returns the cached images with modelUsed = 'Cache' and
\* invokes no backend candidate.
C2_RepeatServedFromCache ==
  [][\A c, d \in DOMAIN calls :
       (/\ c # d
        /\ PrimarySuccess(calls[d])
        /\ calls[c].pc = "idle" /\ calls'[c].pc # "idle"
        /\ calls'[c].fn = "generateImage"
        /\ calls'[c].args = calls[d].args)
       => /\ calls'[c].pc = "done"
          /\ calls'[c].result =
               Return([images |-> responseCache[cacheKey(calls[d].args)],
                       usedFallback |-> FALSE, modelUsed |-> "Cache"])
          /\ calls'[c].invoked = <<>>
          /\ calls'[c].attempts = 0]_vars

C2_Witness ==
  \E c, d \in DOMAIN calls :
    /\ c # d /\ PrimarySuccess(calls[d])
    /\ Returned(calls[c], "generateImage")
    /\ calls[c].args = calls[d].args
    /\ calls[c].result.value.modelUsed = "Cache"
    /\ calls[c].invoked = <<>>

\* the needles that classify an error as a quota failure
QuotaNeedles(fn) ==
  IF fn = "withRetryV1"
    THEN {"429", "resource exhausted", "quota"}
    ELSE {"429", "resource exhausted", "quota", "too many requests"}
ServerBusyNeedles == {"503", "unavailable", "overloaded"}

HasNeedle(error, needles) ==
  \E needle \in needles : includes(toLowerCase(toString(error)), needle)

RECURSIVE Power(_, _)
Power(b, k) == IF k = 0 THEN 1 ELSE b * Power(b, k - 1)

\* initialDelay * multiplier^k
ExpectedDelay(fn, k) ==
  IF fn = "withRetryV1"
    THEN DefaultDelay * Power(2, k)
    ELSE (DefaultDelay * Power(3, k)) \div Power(2, k)

\* C3: when the operation fails N consecutive times with a quota-classified
\* error, withRetry retries exactly min(maxAttempts, N) times, sleeps
\* initialDelay * multiplier^k before the k-th retry (strictly increasing
\* delays) and, once the attempts are exhausted, rethrows the last error of
\* the operation unmodified.
C3_QuotaRetries ==
  \A c \in DOMAIN calls :
    LET s == calls[c]
        N == Len(s.thrown)
    IN  (/\ s.fn \in {"withRetry", "withRetryV1"}
         /\ s.pc = "done"
         /\ \A i \in 1..N : HasNeedle(s.thrown[i], QuotaNeedles(s.fn)))
        => /\ Len(s.slept) = Min(DefaultRetries, N)
           /\ s.attempts = Min(DefaultRetries, N) + 1
           /\ \A k \in 1..Len(s.slept) : s.slept[k] = ExpectedDelay(s.fn, k - 1)
           /\ \A k \in 2..Len(s.slept) : s.slept[k] > s.slept[k - 1]
           /\ (N > DefaultRetries => s.result = Throw(s.thrown[N]))
           /\ (N <= DefaultRetries => s.result.kind = "return")

C3_Witness ==
  \E c \in DOMAIN calls :
    /\ Threw(calls[c], "withRetry")
    /\ Len(calls[c].thrown) = DefaultRetries + 1
    /\ \A i \in 1..Len(calls[c].thrown) :
         HasNeedle(calls[c].thrown[i], QuotaNeedles("withRetry"))
    /\ calls[c].thrown[1] # calls[c].thrown[DefaultRetries + 1]
    /\ Len(calls[c].slept) = DefaultRetries

\* C4: when the operation fails with an error that carries no quota and no
\* server-busy marker (permission, invalid-request, unknown), withRetry has
\* invoked the operation exactly once, has slept no delay and propagates
\* that same error.
C4_NonTransientNotRetried ==
  \A c \in DOMAIN calls :
    LET s == calls[c]
    IN  (/\ s.fn = "withRetry"
         /\ s.thrown # <<>>
         /\ ~HasNeedle(s.thrown[Len(s.thrown)],
                       QuotaNeedles("withRetry") \cup ServerBusyNeedles))
        => /\ s.pc = "done"
           /\ s.result = Throw(s.thrown[Len(s.thrown)])
           /\ (Len(s.thrown) = 1 => s.attempts = 1 /\ s.slept = <<>>)
           /\ s.attempts = Len(s.thrown)

C4_Witness ==
  \E c \in DOMAIN calls :
    /\ Threw(calls[c], "withRetry")
    /\ calls[c].thrown = <<Error(<<"403 PERMISSION_DENIED">>)>>
    /\ calls[c].attempts = 1

\* C5: generateImage never returns a result with zero images, cache hits
\* included; when every candidate of the waterfall has failed it throws the
\* all-candidates-exhausted error.
C5_NeverZeroImages ==
  \A c \in DOMAIN calls :
    LET s == calls[c]
    IN  /\ (Returned(s, "generateImage") \/ Returned(s, "generateImageV1"))
             => Len(s.result.value.images) > 0
        /\ (Done(s, "generateImage") /\ Len(s.invoked) = Len(GenerateWaterfall(s.args))
             /\ s.rung = Len(GenerateWaterfall(s.args)))
             => (s.result.kind = "return" \/ s.result = Throw(AllBusyError))
        /\ Threw(s, "generateImage")
             => \/ s.result.error = AllBusyError
                   /\ Len(s.invoked) = Len(GenerateWaterfall(s.args))
                \/ s.result.error = ApiKeyError /\ ~apiKey /\ s.invoked = <<>>

C5_Witness ==
  \E c \in DOMAIN calls :
    /\ Threw(calls[c], "generateImage")
    /\ calls[c].result.error = AllBusyError
    /\ Len(calls[c].invoked) = 6
    /\ DOMAIN responseCache # {}

\* C6: if the primary (tier-preferred) candidate of a generateImage call
\* succeeds, the result has usedFallback = false and modelUsed equal to the
\* id of the primary candidate.
C6_PrimarySuccessNotDegraded ==
  \A c \in DOMAIN calls :
    LET s == calls[c]
    IN  (Returned(s, "generateImage") /\ s.rung = 1)
        => /\ s.result.value.usedFallback = FALSE
           /\ s.result.value.modelUsed = preferredModel(s.args)
           /\ s.result.value.modelUsed = s.invoked[1]
           /\ Len(s.invoked) = 1

C6_Witness ==
  \E c \in DOMAIN calls :
    /\ Returned(calls[c], "generateImage") /\ calls[c].rung = 1
    /\ calls[c].args.useProModel
    /\ calls[c].result.value.modelUsed = "gemini-3-pro-image-preview"

\* C7: every result returned with usedFallback = false consists of images
\* produced by the first candidate of the ordered list; no result served by a
\* later rung, and no result of any other origin, is returned with
\* usedFallback = false.
C7_UndegradedFromFirstCandidate ==
  \A c \in DOMAIN calls :
    LET s == calls[c]
    IN  (Returned(s, "generateImage") /\ s.result.value.usedFallback = FALSE)
        => /\ Producers(s) = {GenerateWaterfall(s.args)[1].model}
           /\ s.rung \in {0, 1}
           /\ s.result.value.modelUsed \in {preferredModel(s.args), "Cache"}

C7_Witness ==
  \E c, d \in DOMAIN calls :
    /\ c # d
    /\ Returned(calls[c], "generateImage")
    /\ calls[c].result.value.modelUsed = "Cache"
    /\ Returned(calls[d], "generateImage")
    /\ calls[d].result.value.usedFallback
    /\ calls[d].args.useProModel /\ ~calls[c].args.useProModel

\* C8: once the cache holds an entry for a key, that entry is never evicted,
\* invalidated or replaced, also when calls for the same key overlap in time.
C8_CacheEntryNeverReplaced ==
  [][\A k \in DOMAIN responseCache :
       k \in DOMAIN responseCache' /\ responseCache'[k] = responseCache[k]]_vars

\* C9: the cache is written only by a generateImage call whose primary
\* candidate succeeded, in the step in which that call returns; a call
\* served by a fallback rung, a call served from the cache and a call that
\* fails leave the cache as it was.
C9_CacheWrittenOnlyByPrimary ==
  [][responseCache' # responseCache =>
       \E c \in DOMAIN calls :
         /\ calls[c].pc = "call" /\ calls[c].rung = 1
         /\ PrimarySuccess(calls'[c])
         /\ calls'[c].result.value.usedFallback = FALSE
         /\ calls'[c].result.value.modelUsed = preferredModel(calls[c].args)
         /\ DOMAIN responseCache' = DOMAIN responseCache \cup {cacheKey(calls[c].args)}
         /\ responseCache'[cacheKey(calls[c].args)] = calls'[c].result.value.images
         /\ \A k \in DOMAIN responseCache :
              k # cacheKey(calls[c].args) => responseCache'[k] = responseCache[k]]_vars

C9_Witness ==
  \E c, d \in DOMAIN calls :
    /\ c # d
    /\ PrimarySuccess(calls[d])
    /\ Returned(calls[c], "generateImage")
    /\ calls[c].result.value.usedFallback
    /\ DOMAIN responseCache = {cacheKey(calls[d].args)}
    /\ cacheKey(calls[c].args) \notin DOMAIN responseCache

\* C10: a generateImage call that starts while another call for the same key
\* is still in flight, the key not being cached, misses the cache and starts
\* its own waterfall at the primary candidate; it does not join the call in
\* flight, which goes on unchanged.
C10_NoCoalescing ==
  [][\A c, d \in DOMAIN calls :
       (/\ c # d
        /\ InFlight(calls[d]) /\ calls[d].fn = "generateImage"
        /\ calls[c].pc = "idle" /\ calls'[c].pc # "idle"
        /\ calls'[c].args = calls[d].args
        /\ cacheKey(calls[d].args) \notin DOMAIN responseCache)
       => /\ calls'[c].pc = "call"
          /\ calls'[c].rung = 1
          /\ calls'[c].invoked = <<preferredModel(calls[d].args)>>
          /\ calls'[c].pending =
               TryModelPayload(calls[d].args, preferredModel(calls[d].args))
          /\ calls'[d] = calls[d]
          /\ responseCache' = responseCache]_vars

C10_Witness ==
  \E c, d \in DOMAIN calls :
    /\ c # d
    /\ InFlight(calls[c]) /\ InFlight(calls[d])
    /\ calls[c].args = calls[d].args
    /\ calls[c].invoked # <<>> /\ calls[d].invoked # <<>>
    /\ calls[c].rung = 1 /\ calls[d].rung > 1

\* the fixed error an entry point throws when all its candidates are used up
TerminalError(fn) ==
  CASE fn = "generateImage" -> AllBusyError
    [] fn = "editImage" -> EditorError
    [] OTHER -> ChatUnavailableError

\* the call has settled with a result or with its terminal error
Terminated(s) ==
  /\ s.pc = "done"
  /\ s.result.kind = "return" \/ s.result = Throw(TerminalError(s.fn))

\* C11: provided every backend request completes and every backoff sleep
\* elapses, a call of generateImage, editImage or sendChatMessage that is in
\* progress eventually settles, with a result or with its terminal
\* (exhausted) error; no sequence of failures makes it loop or hang.
C11_EveryCallTerminates == InFlight(calls[1]) ~> Terminated(calls[1])

C11_Witness ==
  /\ Threw(calls[1], "sendChatMessage")
  /\ calls[1].result.error = ChatUnavailableError
  /\ calls[1].args.mode = "thinking"
  /\ Len(calls[1].invoked) = Len(ChatSequence("thinking"))
  /\ calls[1].attempts = DefaultRetries + 1

\* C12: within one call of generateImage or editImage at most one backend
\* request is outstanding, that of the candidate invoked last; a further
\* candidate is invoked only in the step in which the outstanding request of
\* the current candidate completes (in failure or with an empty result),
\* never while a retry of the current candidate is still due.
C12_OneRequestAtATime ==
  [][\A c \in DOMAIN calls :
       LET s == calls[c]
           t == calls'[c]
       IN  t.fn \in {"generateImage", "editImage"} =>
             /\ InFlight(t) => /\ t.invoked # <<>>
                               /\ t.pending.model = t.invoked[Len(t.invoked)]
             /\ t.pc = "done" => t.pending = NoPayload
             /\ (s.pc # "idle" /\ t.invoked # s.invoked) =>
                   /\ s.pc = "call" /\ t.pc = "call"
                   /\ t.invoked = Append(s.invoked, t.pending.model)
                   /\ t.pending # s.pending
                   /\ t.rung > s.rung
                   /\ t.attempts = 1]_vars

C12_Witness ==
  \E c \in DOMAIN calls :
    /\ calls[c].fn = "editImage" /\ calls[c].pc = "sleep"
    /\ calls[c].rung = 2 /\ Len(calls[c].invoked) = 2
    /\ calls[c].attempts = 3

\* C13: when an API key is configured, the only error generateImage,
\* editImage or sendChatMessage throws to its caller is its fixed terminal
\* error; no error of a single candidate, and no raw backend error, reaches
\* the caller.
C13_OnlyTerminalErrorSurfaces ==
  \A c \in DOMAIN calls :
    LET s == calls[c]
    IN  (/\ apiKey
         /\ s.fn \in {"generateImage", "editImage", "sendChatMessage"}
         /\ s.pc = "done" /\ s.result.kind = "throw")
        => /\ s.result.error = TerminalError(s.fn)
           /\ s.result.error \notin BackendErrors

C13_Witness ==
  \E c \in DOMAIN calls :
    /\ apiKey
    /\ Threw(calls[c], "editImage")
    /\ calls[c].result.error = EditorError
    /\ calls[c].rung = Len(EditStages)

\* the five classes of a failure, by the substrings of its text
Classify(error) ==
  IF HasNeedle(error, {"403", "permission"}) THEN "permission"
  ELSE IF HasNeedle(error, {"429", "quota", "resource exhausted", "too many requests"})
    THEN "quota"
  ELSE IF HasNeedle(error, ServerBusyNeedles) THEN "server-busy"
  ELSE IF HasNeedle(error, {"400", "invalid_argument"}) THEN "invalid-request"
  ELSE "unknown"

\* C14: whatever the class of the failure of a candidate of generateImage
\* (permission, quota, server-busy, invalid-request, unknown), the walk goes
\* on: a quota or server-busy failure is retried on the same candidate while
\* attempts are left, every other failure and a failure with no attempt left
\* makes the walk invoke the next candidate, and only after the last
\* candidate is the terminal error thrown.
C14_EveryFailureFallsThrough ==
  [][\A c \in DOMAIN calls : \A error \in BackendErrors :
       (calls[c].fn = "generateImage" /\ OperationRejects(c, error)) =>
         LET s == calls[c]
             t == calls'[c]
             waterfall == GenerateWaterfall(s.args)
         IN  IF Classify(error) \in {"quota", "server-busy"} /\ s.retries > 0
               THEN /\ t.pc = "sleep" /\ t.rung = s.rung
                    /\ t.invoked = s.invoked /\ t.pending = s.pending
               ELSE IF s.rung < Len(waterfall)
                 THEN /\ t.pc = "call" /\ t.rung = s.rung + 1
                      /\ t.invoked = Append(s.invoked, waterfall[s.rung + 1].model)
                 ELSE /\ t.pc = "done"
                      /\ t.result = Throw(AllBusyError)]_vars

\* the second candidate is on its last attempt after five local retries
C14_Witness ==
  \E c \in DOMAIN calls :
    /\ calls[c].fn = "generateImage" /\ calls[c].pc = "call"
    /\ calls[c].rung = 2 /\ Len(calls[c].invoked) = 2
    /\ calls[c].retries = 0 /\ calls[c].attempts = DefaultRetries + 1

\* C15: when the last candidate of generateImage fails and the call throws,
\* the error thrown carries the class of the failure of that last
\* candidate: the text of the error thrown classifies as that failure does.
C15_ExhaustedErrorCarriesLastClass ==
  [][\A c \in DOMAIN calls : \A error \in BackendErrors :
       (/\ calls[c].fn = "generateImage"
        /\ OperationRejects(c, error)
        /\ calls'[c].pc = "done")
       => Classify(calls'[c].result.error) = Classify(error)]_vars

\* the models of the synthesis steps
SynthesisModels == {SynthesisSteps[i].model : i \in DOMAIN SynthesisSteps}

\* the requests a call of editImage has issued from the description stage on
AfterEditWaterfall(s) == SubSeq(s.invoked, Len(EditWaterfall) + 1, Len(s.invoked))

\* C16: in syntheticEditWithImagen a description attempt that throws is
\* followed by the next description attempt; when the last description
\* attempt throws too, the pipeline returns no image (editImage throws its
\* terminal error) and no synthesis candidate, Imagen or Gemini 2.0, has been
\* or is invoked.
C16_NoSynthesisWithoutDescription ==
  [][\A c \in DOMAIN calls : \A error \in BackendErrors :
       (/\ calls[c].fn = "editImage" /\ calls[c].pc = "call"
        /\ EditStages[calls[c].rung].via = "describe"
        /\ OperationRejects(c, error)
        /\ calls'[c].pc # "sleep")
       => LET s == calls[c]
              t == calls'[c]
          IN  IF s.rung + 1 < FirstSynthesis
                THEN /\ t.pc = "call" /\ t.rung = s.rung + 1
                     /\ EditStages[t.rung].via = "describe"
                     /\ t.newPrompt = <<>>
                ELSE /\ t.pc = "done" /\ t.result = Throw(EditorError)
                     /\ t.invoked = s.invoked
                     /\ AfterEditWaterfall(t) =
                          [i \in DOMAIN DescribeAttempts |-> DescribeAttempts[i].model]]_vars

C16_Witness ==
  \E c \in DOMAIN calls :
    /\ Threw(calls[c], "editImage")
    /\ calls[c].rung = Len(EditWaterfall) + Len(DescribeAttempts)
    /\ Len(calls[c].invoked) = Len(EditWaterfall) + Len(DescribeAttempts)
    /\ calls[c].attempts = DefaultRetries + 1

\* the models of a list of stages, in order
StageModels(stages) == [i \in DOMAIN stages |-> stages[i].model]

\* C17: editImage returns usedSynthetic = true exactly when the image it
\* returns was produced in the synthesis stage of the synthetic pipeline, and
\* the synthetic pipeline is entered only after all three edit candidates
\* have been invoked, in order, without yielding an image.
C17_SyntheticFlagAndEntry ==
  \A c \in DOMAIN calls :
    LET s == calls[c]
    IN  /\ Returned(s, "editImage") =>
              /\ s.result.value.usedSynthetic = (s.rung >= FirstSynthesis)
              /\ s.rung \notin Len(EditWaterfall) + 1 .. FirstSynthesis - 1
              /\ Producers(s) = {EditStages[s.rung].model}
              /\ s.rung >= FirstSynthesis => s.newPrompt # <<>>
        /\ (s.fn = "editImage" /\ s.rung > Len(EditWaterfall)) =>
              /\ Len(s.invoked) >= Len(EditWaterfall)
              /\ SubSeq(s.invoked, 1, Len(EditWaterfall)) = StageModels(EditWaterfall)

\* the three edit candidates failed, the description succeeded on the second
\* vision candidate and the synthesis on the first generation candidate
C17_Witness ==
  \E c \in DOMAIN calls :
    /\ Returned(calls[c], "editImage")
    /\ calls[c].invoked =
         StageModels(EditWaterfall) \o <<DescribeAttempts[1].model, DescribeAttempts[2].model,
                                         SynthesisSteps[1].model>>
    /\ calls[c].result.value.usedSynthetic
    /\ calls[c].result.value.image.mime = "image/jpeg"

\* C18: the result of editImage is marked degraded whenever it was served by
\* the second or third edit candidate or by the synthetic pipeline, and is
\* unmarked only when it was served by the first edit candidate.
C18_EditDegradedUnlessFirst ==
  \A c \in DOMAIN calls :
    Returned(calls[c], "editImage") =>
      (MarkedDegraded(calls[c]) <=> calls[c].rung # 1)

\* C19: when the edit waterfall is used up and the synthetic pipeline fails
\* too, in the description stage or in the synthesis stage, by an error or by
\* producing nothing, editImage throws its one fixed error; editImage throws
\* only after the synthetic pipeline was entered, and nothing raised inside
\* syntheticEditWithImagen leaves editImage.
C19_SyntheticFailureUniform ==
  [][\A c \in DOMAIN calls :
       LET s == calls[c]
           t == calls'[c]
       IN  (/\ apiKey
            /\ s.fn = "editImage" /\ s.pc = "call"
            /\ t.pc = "done")
           => \/ t.result.kind = "return"
              \/ /\ t.result = Throw(EditorError)
                 /\ s.rung > Len(EditWaterfall)
                 /\ Len(t.invoked) > Len(EditWaterfall)
                 /\ t.invoked = s.invoked]_vars

\* the description succeeded at once and both synthesis steps failed
C19_Witness ==
  \E c \in DOMAIN calls :
    /\ Threw(calls[c], "editImage")
    /\ calls[c].result.error = EditorError
    /\ calls[c].newPrompt # <<>>
    /\ calls[c].invoked =
         StageModels(EditWaterfall) \o <<DescribeAttempts[1].model>>
           \o StageModels(SynthesisSteps)

\* C20: in the description stage the vision candidates are tried in order
\* and the first non-empty text becomes the description; a vision candidate
\* that answers with empty text counts as failed, and the next vision
\* candidate is tried.
C20_EmptyDescriptionTriesNext ==
  [][\A c \in DOMAIN calls : \A response \in Responses(c, calls[c].pending) :
       (/\ calls[c].fn = "editImage" /\ calls[c].pc = "call"
        /\ EditStages[calls[c].rung].via = "describe"
        /\ OperationResolves(c, response))
       => LET s == calls[c]
              t == calls'[c]
          IN  IF ResponseText(response) # <<>>
                THEN /\ t.newPrompt = ResponseText(response)
                     /\ t.pc = "call" /\ t.rung = FirstSynthesis
                ELSE IF s.rung + 1 < FirstSynthesis
                  THEN /\ t.pc = "call" /\ t.rung = s.rung + 1
                       /\ EditStages[t.rung].via = "describe"
                  ELSE t.pc = "done" /\ t.result = Throw(EditorError)]_vars

\* the number of images a backend response carries
ImageCount(response) ==
  IF "generatedImages" \in DOMAIN response
    THEN Len(response.generatedImages)
    ELSE IF "parts" \in DOMAIN response
      THEN Cardinality({i \in DOMAIN response.parts :
                          /\ response.parts[i].kind = "inlineData"
                          /\ response.parts[i].data # <<>>})
      ELSE 0

\* the stages of a call that ask for an image
ImageStage(s) ==
  IF s.fn = "editImage" THEN EditStages[s.rung].via # "describe" ELSE TRUE

\* the last stage of the walk of a call
LastStage(s) ==
  IF s.fn = "editImage" THEN Len(EditStages) ELSE Len(GenerateWaterfall(s.args))

\* C21: in generateImage, in the edit candidates of editImage and in the
\* synthesis stage, a candidate whose request succeeds with zero images is
\* treated like a failed candidate: the next candidate is invoked (after the
\* last one the terminal error is thrown), nothing is cached, and no result
\* without an image is returned.
C21_EmptySuccessFallsThrough ==
  [][\A c \in DOMAIN calls : \A response \in Responses(c, calls[c].pending) :
       (/\ calls[c].fn \in {"generateImage", "editImage"} /\ calls[c].pc = "call"
        /\ ImageStage(calls[c])
        /\ OperationResolves(c, response))
       => LET s == calls[c]
              t == calls'[c]
          IN  IF ImageCount(response) = 0
                THEN /\ responseCache' = responseCache
                     /\ IF s.rung < LastStage(s)
                          THEN /\ t.pc = "call" /\ t.rung = s.rung + 1
                               /\ Len(t.invoked) = Len(s.invoked) + 1
                          ELSE t.pc = "done" /\ t.result = Throw(TerminalError(s.fn))
                ELSE /\ t.pc = "done" /\ t.result.kind = "return"
                     /\ t.rung = s.rung]_vars

\* the first synthesis step of an edit ended without an image and the second
\* one is being asked
C21_Witness ==
  \E c \in DOMAIN calls :
    /\ calls[c].fn = "editImage" /\ calls[c].pc = "call"
    /\ calls[c].rung = Len(EditStages)
    /\ calls[c].attempts = 1

\* the candidates of generateImage in priority order: the primary of the
\* tier; for the pro tier the standard-tier model; the image-synthesis model;
\* the two experimental models; the legacy model
PriorityOrder(useProModel) ==
  (IF useProModel THEN <<"gemini-3-pro-image-preview">> ELSE <<>>)
  \o <<"gemini-2.5-flash-image", "imagen-3.0-generate-001", "gemini-2.0-flash-exp",
       "gemini-2.0-flash-thinking-exp", "gemini-1.5-flash">>

\* C22: generateImage invokes its candidates in the priority order, six
\* rungs on the pro tier (the standard-tier model is a rung of its own only
\* there); what a call has invoked is always an initial part of that order,
\* and when the call throws its terminal error exactly these rungs have been
\* invoked, each once, in that order.
C22_RungOrder ==
  \A c \in DOMAIN calls :
    LET s == calls[c]
        order == PriorityOrder(s.args.useProModel)
    IN  s.fn = "generateImage" =>
          /\ Len(s.invoked) <= Len(order)
          /\ s.invoked = SubSeq(order, 1, Len(s.invoked))
          /\ s.rung = Len(s.invoked)
          /\ s.args.useProModel => Len(order) = 6
          /\ (Threw(s, "generateImage") /\ s.result.error = AllBusyError)
               => s.invoked = order

C22_Witness ==
  \E c \in DOMAIN calls :
    /\ Threw(calls[c], "generateImage")
    /\ calls[c].args.useProModel /\ calls[c].args.resolution = "8K"
    /\ calls[c].invoked = PriorityOrder(TRUE)

\* the request outstanding is that of the resolution-capable primary candidate
ResolutionCapablePrimary(s) == s.rung = 1 /\ s.args.useProModel

\* the prompt with the detail-emphasis suffix
Augmented(prompt) == prompt \o " (Highly detailed 8K resolution masterpiece, ultra-sharp)"

\* C23: in generateImage the resolution-capable primary candidate is sent
\* the requested resolution, 8K as 4K, and for 8K the prompt with the
\* detail-emphasis suffix; every other candidate is sent the unmodified
\* prompt and no resolution parameter.
C23_ResolutionRemapAndSuffix ==
  \A c \in DOMAIN calls :
    LET s == calls[c]
    IN  (s.fn \in {"generateImage", "generateImageV1"} /\ InFlight(s)) =>
          IF ResolutionCapablePrimary(s)
            THEN /\ s.pending.imageSize =
                      (IF s.args.resolution = "8K" THEN "4K" ELSE s.args.resolution)
                 /\ s.pending.prompt =
                      (IF s.args.resolution = "8K" THEN Augmented(s.args.prompt)
                                                   ELSE s.args.prompt)
            ELSE /\ s.pending.imageSize = Undefined
                 /\ s.pending.prompt = s.args.prompt

\* the candidates of fast mode, and of thinking mode: the reasoning candidate
\* followed by the candidates of fast mode
FastOrder == <<"gemini-2.5-flash-lite", "gemini-2.0-flash-exp", "gemini-1.5-flash">>
ReasoningCandidate == "gemini-3-pro-preview"
ChatOrder(mode) ==
  IF mode = "thinking" THEN <<ReasoningCandidate>> \o FastOrder ELSE FastOrder

\* C24: sendChatMessage invokes its candidates in order, the reasoning
\* candidate first in thinking mode and then exactly the candidates of fast
\* mode; only the reasoning candidate is sent the thinking budget; the
\* stream returned is the one opened by the candidate invoked last, the
\* first whose stream initiation succeeded, and modelUsed is its id.
C24_ChatOrderAndTag ==
  \A c \in DOMAIN calls :
    LET s == calls[c]
    IN  s.fn = "sendChatMessage" =>
          /\ Len(s.invoked) <= Len(ChatOrder(s.args.mode))
          /\ s.invoked = SubSeq(ChatOrder(s.args.mode), 1, Len(s.invoked))
          /\ InFlight(s) =>
               /\ s.pending.model = s.invoked[Len(s.invoked)]
               /\ (s.pending.thinkingBudget # Undefined)
                    <=> (s.pending.model = ReasoningCandidate)
          /\ Returned(s, "sendChatMessage") =>
               /\ s.result.value.modelUsed = s.invoked[Len(s.invoked)]
               /\ s.result.value.stream.source = <<s.result.value.modelUsed, c>>

C24_Witness ==
  \E c \in DOMAIN calls :
    /\ Returned(calls[c], "sendChatMessage")
    /\ calls[c].args.mode = "thinking"
    /\ calls[c].result.value.modelUsed = "gemini-2.0-flash-exp"
    /\ Len(calls[c].invoked) = 3

C26_CredentialConfirmedFirst ==
  \A c \in DOMAIN calls :
    (/\ calls[c].handler \in {"handleGenerate", "handleEdit", "handleSendMessage"}
     /\ calls[c].fn \in {"generateImage", "editImage", "sendChatMessage"})
    => calls[c].ensured = "true"

RECURSIVE Sum(_)
Sum(seq) == IF seq = <<>> THEN 0 ELSE Head(seq) + Sum(Tail(seq))

\* C27: with the default policy the delays withRetry sleeps are always a
\* prefix of 4000, 6000, 9000, 13500, 20250 ms, whichever transient errors
\* the operation threw; a fully exhausted sequence has slept all five,
\* 52750 ms in total.
C27_FixedDelaySeries ==
  \A c \in DOMAIN calls :
    LET s == calls[c]
        series == <<4000, 6000, 9000, 13500, 20250>>
    IN  s.fn = "withRetry"
        => /\ Len(s.slept) <= DefaultRetries
           /\ s.slept = SubSeq(series, 1, Len(s.slept))
           /\ (Len(s.thrown) = DefaultRetries + 1
                 => Len(s.slept) = DefaultRetries /\ Sum(s.slept) = 52750)

\* exhausted by a mix of quota and server-busy errors
C27_Witness ==
  \E c \in DOMAIN calls :
    /\ Threw(calls[c], "withRetry")
    /\ Len(calls[c].thrown) = DefaultRetries + 1
    /\ \E i, j \in 1..Len(calls[c].thrown) :
         /\ HasNeedle(calls[c].thrown[i], QuotaNeedles("withRetry"))
         /\ ~HasNeedle(calls[c].thrown[i], ServerBusyNeedles)
         /\ HasNeedle(calls[c].thrown[j], ServerBusyNeedles)
         /\ ~HasNeedle(calls[c].thrown[j], QuotaNeedles("withRetry"))
    /\ Sum(calls[c].slept) = 52750

\* C28: the cache key is a function of (prompt, aspect ratio, resolution,
\* tier) that is injective: two requests have the same key exactly when all
\* four fields are equal.
C28_CacheKeyInjective ==
  \A c, d \in DOMAIN calls :
    (Returned(calls[c], "cacheKey") /\ Returned(calls[d], "cacheKey"))
    => /\ calls[c].result.value = cacheKey(calls[c].args)
       /\ (calls[c].result.value = calls[d].result.value
             <=> calls[c].args = calls[d].args)

\* two requests that differ in the tier only, the prompt holding the
\* separator and the text of the other fields
C28_Witness ==
  \E c, d \in DOMAIN calls :
    /\ Returned(calls[c], "cacheKey") /\ Returned(calls[d], "cacheKey")
    /\ calls[c].args.prompt = "cat-1:1-2K"
    /\ calls[d].args = [calls[c].args EXCEPT !.useProModel = ~@]
    /\ calls[c].result.value # calls[d].result.value

\* C29: when no API key is configured, no entry point invokes a backend
\* candidate and the cache stays as it was: every call fails at once with
\* the API-key error, never with the error of an exhausted waterfall.
C29_NoKeyNoBackend ==
  ~apiKey =>
    /\ responseCache = EmptyCache
    /\ \A c \in DOMAIN calls :
         LET s == calls[c]
         IN  s.fn \in {"generateImage", "editImage", "sendChatMessage"}
             => /\ s.pc = "done"
                /\ s.invoked = <<>>
                /\ s.attempts = 0
                /\ s.result = Throw(ApiKeyError)
                /\ s.result # Throw(TerminalError(s.fn))

C29_Witness ==
  /\ ~apiKey
  /\ \E c \in DOMAIN calls :
       /\ Threw(calls[c], "editImage")
       /\ calls[c].result.error = ApiKeyError

\* C30: one withRetry call invokes its operation at most retries + 1 = 6
\* times; one generateImage call sends at most 36 requests to the backend on
\* the pro tier and 30 on the standard tier, and invokes no candidate id in
\* two different rungs.
C30_BoundedInvocations ==
  \A c \in DOMAIN calls :
    LET s == calls[c]
    IN  /\ s.fn \in {"withRetry", "generateImage"} => s.attempts <= DefaultRetries + 1
        /\ (s.fn = "generateImage" /\ s.metered)
             => /\ s.invocations <= (IF s.args.useProModel THEN 36 ELSE 30)
                /\ s.invocations <= (DefaultRetries + 1) * Len(GenerateWaterfall(s.args))
                /\ \A i, j \in DOMAIN s.invoked :
                     s.invoked[i] = s.invoked[j] => i = j

\* every candidate of the pro tier exhausted its retries
C30_Witness ==
  \E c \in DOMAIN calls :
    /\ Threw(calls[c], "generateImage")
    /\ calls[c].metered
    /\ calls[c].args.useProModel
    /\ calls[c].invocations = 36

\* every candidate of the standard tier exhausted its retries
C30_WitnessStandard ==
  \E c \in DOMAIN calls :
    /\ Threw(calls[c], "generateImage")
    /\ calls[c].metered
    /\ ~calls[c].args.useProModel
    /\ calls[c].invocations = 30

\* the images a synthesis candidate obtains from its response
SynthesisImages(k, response) ==
  IF k = FirstSynthesis THEN ImagenImages(response) ELSE ExtractImages(response)

\* C31: the synthesis stage of syntheticEditWithImagen runs only with a
\* non-empty description as its prompt; it asks Imagen first and Gemini 2.0
\* Flash Exp second and returns the first image either produces; Imagen
\* throwing or answering without an image leads to Gemini 2.0, and when
\* Gemini 2.0 fails as well the pipeline returns no image.
C31_SynthesisStage ==
  [][\A c \in DOMAIN calls :
       LET s == calls[c]
           t == calls'[c]
       IN  (s.fn = "editImage" /\ s.pc = "call")
           => /\ (t.pc = "call" /\ t.rung = FirstSynthesis /\ s.rung # t.rung)
                   => /\ s.rung < FirstSynthesis
                      /\ t.newPrompt # <<>>
                      /\ t.pending.model = "imagen-3.0-generate-001"
                      /\ t.pending.prompt = t.newPrompt
              /\ (t.pc = "call" /\ t.rung = FirstSynthesis + 1 /\ s.rung # t.rung)
                   => /\ s.rung = FirstSynthesis
                      /\ t.pending.model = "gemini-2.0-flash-exp"
                      /\ t.pending.prompt = s.newPrompt /\ s.newPrompt # <<>>
              /\ \A response \in Responses(c, s.pending) :
                   (s.rung >= FirstSynthesis /\ OperationResolves(c, response))
                   => IF Len(SynthesisImages(s.rung, response)) > 0
                        THEN /\ Returned(t, "editImage")
                             /\ t.result.value.image = SynthesisImages(s.rung, response)[1]
                        ELSE IF s.rung = FirstSynthesis
                          THEN t.pc = "call" /\ t.rung = FirstSynthesis + 1
                          ELSE Threw(t, "editImage") /\ t.result.error = EditorError
              /\ \A error \in BackendErrors :
                   (/\ s.rung >= FirstSynthesis /\ OperationRejects(c, error)
                    /\ ~Retrying(s, error))
                   => IF s.rung = FirstSynthesis
                        THEN t.pc = "call" /\ t.rung = FirstSynthesis + 1
                        ELSE Threw(t, "editImage") /\ t.result.error = EditorError]_vars

\* Imagen threw, Gemini 2.0 Flash Exp produced the image that is returned
C31_Witness ==
  \E c \in DOMAIN calls :
    /\ Returned(calls[c], "editImage")
    /\ calls[c].rung = FirstSynthesis + 1
    /\ calls[c].newPrompt # <<>>
    /\ calls[c].result.value.usedSynthetic
    /\ calls[c].result.value.image.mime = "image/png"

\* C32: the editor never holds more than 3 source images and editImage is
\* only ever invoked with 1 to 3 images, whatever the order of file
\* selections, completions of file reads and removals.
C32_AtMostThreeImages ==
  /\ Len(ui.sourceImages) <= 3
  /\ \A c \in DOMAIN calls :
       calls[c].fn = "editImage" => Len(calls[c].args.base64Images) \in 1..3

\* the busy flag of a handler: isGenerating, isProcessing, isStreaming
Busy(u, handler) ==
  CASE handler = "handleGenerate" -> u.isGenerating
    [] handler = "handleEdit" -> u.isProcessing
    [] handler = "handleSendMessage" -> u.isStreaming
    [] OTHER -> FALSE

Handlers == {"handleGenerate", "handleEdit", "handleSendMessage"}

C34_StreamConsumedToEnd ==
  [][\A c \in DOMAIN calls :
       (/\ calls[c].handler = "handleSendMessage"
        /\ Returned(calls[c], "sendChatMessage")
        /\ ConsumeStream(c, "completed"))
       => calls'[c].consumer = "completed"]_vars

\* a key the client can use: selected in the host, before or in the selection
\* flow, or, without a host, provided by the environment
UsableKey(host, environmentKey) ==
  IF host.aistudio
    THEN \/ host.hasSelectedApiKey = "true"
         \/ host.hasSelectedApiKey = "false" /\ host.openSelectKey = "selected"
    ELSE environmentKey

\* the selection flow fails: one of the two calls on the host throws
FlowFails(host) ==
  /\ host.aistudio
  /\ \/ host.hasSelectedApiKey = "throws"
     \/ host.hasSelectedApiKey = "false" /\ host.openSelectKey = "throws"

\* C35: ensureApiKey returns true only when a usable key is available, after
\* a report of no selected key only when a key has been selected in the
\* selection flow, and it returns false when the flow fails.
C35_TrueOnlyWithUsableKey ==
  [][\A c \in DOMAIN calls : \A request \in ConcurrentRequests : \A host \in Hosts :
       HandleGenerate(c, request, host)
       => /\ calls'[c].ensured = "true" => UsableKey(host, apiKey)
          /\ FlowFails(host) => calls'[c].ensured = "false"]_vars

\* the same without the first part: false when the flow fails, true otherwise
C35_FalseExactlyWhenFlowFails ==
  [][\A c \in DOMAIN calls : \A request \in ConcurrentRequests : \A host \in Hosts :
       HandleGenerate(c, request, host)
       => (calls'[c].ensured = "false" <=> FlowFails(host))]_vars

\* the number of pixels a resolution text of the instruction block states
Pixels(resValue) ==
  CASE resValue = "2048px" -> 2048
    [] resValue = "1024px" -> 1024

\* the resolutions in increasing order
ResolutionOrder == <<"2K", "4K", "8K">>

\* C36: the instruction block editImage sends names a pixel size that is
\* determined by the requested resolution and does not decrease when the
\* requested resolution increases from 2K to 4K to 8K.
C36_PixelsFollowResolution ==
  \A c \in DOMAIN calls :
    LET s == calls[c]
    IN  (/\ s.fn = "editImage" /\ s.pc = "call"
         /\ EditStages[s.rung].via = "tryEdit")
        => /\ s.pending.prompt.resolution = masterPrompt(s.args).resolution
           /\ \A i, j \in DOMAIN ResolutionOrder :
                (i < j /\ s.args.resolution = ResolutionOrder[j])
                => Pixels(s.pending.prompt.resolution)
                     >= Pixels(masterPrompt([s.args EXCEPT !.resolution =
                                               ResolutionOrder[i]]).resolution)

\* the markers of a quota or permission failure in the text of an error
FallbackMarkers == {"429", "403", "quota", "permission"}

\* C37: in the earlier generateImage Imagen is invoked only after a primary
\* failure whose error text holds a quota or permission marker; after any
\* other primary failure, an empty primary response included, Imagen is not
\* invoked; and whenever no image is obtained the error thrown is the one
\* handleGeminiError derives from the primary failure, whatever the fallback
\* answered.
C37_ImagenOnlyOnQuotaOrPermission ==
  [][\A c \in DOMAIN calls :
       LET s == calls[c]
           t == calls'[c]
       IN  (s.fn = "generateImageV1" /\ s.pc = "call")
           => /\ (t.rung = 2 /\ s.rung = 1)
                   => /\ HasNeedle(t.geminiError, FallbackMarkers)
                      /\ t.pending.model = "imagen-3.0-generate-001"
              /\ \A error \in BackendErrors :
                   (/\ OperationRejects(c, error) /\ ~Retrying(s, error))
                   => IF s.rung = 1
                        THEN IF HasNeedle(error, FallbackMarkers)
                               THEN t.pc = "call" /\ t.rung = 2 /\ t.geminiError = error
                               ELSE /\ Threw(t, "generateImageV1")
                                    /\ t.result.error = handleGeminiError(error)
                                    /\ t.invoked = <<preferredModel(s.args)>>
                        ELSE /\ Threw(t, "generateImageV1")
                             /\ t.result.error = handleGeminiError(s.geminiError)
              /\ \A response \in Responses(c, s.pending) :
                   (/\ OperationResolves(c, response)
                    /\ Len(IF s.rung = 2 THEN ImagenImages(response)
                                          ELSE ExtractImages(response)) = 0)
                   => /\ Threw(t, "generateImageV1")
                      /\ t.result.error =
                           (IF s.rung = 1 THEN NoImagesErrorV1
                                          ELSE handleGeminiError(s.geminiError))
                      /\ s.rung = 1 => t.invoked = <<preferredModel(s.args)>>]_vars

\* the primary attempt failed for lack of permission, Imagen failed too, and
\* the error thrown is the permission error of the primary attempt
C37_Witness ==
  \E c \in DOMAIN calls :
    /\ Threw(calls[c], "generateImageV1")
    /\ calls[c].rung = 2
    /\ calls[c].geminiError = Error(<<"403 PERMISSION_DENIED">>)
    /\ calls[c].result.error = PermissionDeniedError

\* C38: the earlier sendChatMessage tries its fallback candidate only in
\* thinking mode and only after the primary attempt has thrown; usedFallback
\* is true exactly when the stream returned was opened by the fallback
\* attempt; and when the fallback attempt throws too, the error thrown is
\* the error of the primary attempt.
C38_ChatFallbackV1 ==
  [][\A c \in DOMAIN calls :
       LET s == calls[c]
           t == calls'[c]
       IN  (s.fn = "sendChatMessageV1" /\ s.pc = "call")
           => /\ (t.pc = "call" /\ t.rung = 2)
                   => /\ s.rung = 1 /\ s.args.mode = "thinking"
                      /\ \E error \in BackendErrors : OperationRejects(c, error)
                      /\ t.pending.model = "gemini-2.5-flash-lite"
                      /\ t.invoked = <<"gemini-3-pro-preview", "gemini-2.5-flash-lite">>
              /\ \A response \in Responses(c, s.pending) :
                   OperationResolves(c, response)
                   => /\ Returned(t, "sendChatMessageV1")
                      /\ t.result.value.stream = response
                      /\ t.result.value.usedFallback <=> s.rung = 2
                      /\ t.result.value.usedFallback <=>
                           s.pending.model # ChatPrimaryV1(s.args.mode)
              /\ \A error \in BackendErrors :
                   OperationRejects(c, error)
                   => IF s.rung = 2
                        THEN Threw(t, "sendChatMessageV1") /\ t.result.error = s.geminiError
                        ELSE IF s.args.mode = "thinking"
                          THEN t.pc = "call" /\ t.rung = 2 /\ t.geminiError = error
                          ELSE /\ Threw(t, "sendChatMessageV1") /\ t.result.error = error
                               /\ Len(t.invoked) = 1]_vars

\* both attempts of the thinking mode threw
C38_Witness ==
  \E c \in DOMAIN calls :
    /\ Threw(calls[c], "sendChatMessageV1")
    /\ calls[c].args.mode = "thinking"
    /\ calls[c].invoked = <<"gemini-3-pro-preview", "gemini-2.5-flash-lite">>
    /\ calls[c].result.error = Error(<<"403 PERMISSION_DENIED">>)

====
